---- MODULE Spec2Model ----
(***************************************************************************)
(* Subprocess orchestration layer of clipforge (src-tauri):                *)
(*   - the recording registry and the capture start/stop commands          *)
(*     (commands/recording.rs, types.rs), specification Spec / FairSpec;   *)
(*   - the concat driver of the export pipeline (commands/export.rs),      *)
(*     specification ConcatSpec;                                           *)
(*   - the segment builder of the export pipeline (commands/export.rs),    *)
(*     specification PrepareSpec.                                          *)
(* Every command invocation is an independently scheduled task; a task     *)
(* moves from one suspension point (an .await, or the blocking lock()) to  *)
(* the next in one step.                                                   *)
(***************************************************************************)
EXTENDS Integers, Sequences, FiniteSets, TLC

\* ------------------------------------------------------------------ bounds
\* Number of command invocations (start/stop calls) in one run.
NumCalls == 3

\* Recording ids the callers supply.
RecordingIds == {"recA", "recB"}

Calls == 1..NumCalls
None == 0

\* ------------------------------------------------------------------- state
VARIABLES
    processes,     \* the registry: the HashMap<String, Child> as a set of <<id, handle>>
    lock,          \* holder of the registry Mutex (a call) or None
    op,            \* op[c]: "none" (not invoked yet), "start" (any of the three) or "stop"
    recording_id,  \* recording_id[c]: the id argument
    pc,            \* pc[c]: the suspension point the task is at
    child,         \* child[c]: the Child the task holds (spawned, or removed from the map)
    result,        \* result[c]: what the command returned
    timer,         \* timer[c]: "off", "running" or "elapsed": the 5 s timer of stop
    branch,        \* branch[c]: which arm of the match on the timed wait stop took
    replaced,      \* replaced[c]: the value HashMap::insert returned (and start dropped)
    os,            \* os[p]: state of capture process p ("none" before it is spawned)
    quitWrites,    \* quitWrites[p]: how many times "q\n" reached the stdin of p
    killSignals    \* killSignals[p]: how many kill signals were delivered to p

recVars == <<processes, lock, op, recording_id, pc, child, result, timer,
             branch, replaced, os, quitWrites, killSignals>>

\* ------------------------------------------------------- concat driver state
VARIABLES
    c_pc,          \* position of export_concat: "idle", "reading", "waiting", "done"
    c_total,       \* the total_duration_ms argument
    c_script,      \* lines the encoder has still to write to its diagnostic stream
    c_pipe,        \* lines written and not read yet
    c_open,        \* TRUE while the encoder holds the write end of the stream open
    c_reader,      \* "none", "open" (lines reader alive), "eof", "error" (how the loop ended)
    c_exit,        \* exit status of the encoder, -1 while it runs
    c_status,      \* what child.wait() gave: "none", "ok" (a status) or "err"
    c_events,      \* the ProgressEvents emitted, in order
    c_written,     \* the lines the encoder has written so far, in order
    c_result       \* what export_concat returned

concatVars == <<c_pc, c_total, c_script, c_pipe, c_open, c_reader, c_exit, c_status,
                c_events, c_written, c_result>>

\* ----------------------------------------------------- segment builder state
VARIABLES
    p_pc,          \* position of export_prepare: "idle", "mkdir", "loop", "encode",
                   \* "write", "done", or "panicked" (arithmetic overflow panic)
    p_request,     \* the request argument: [clips, width, height]
    p_checked,     \* TRUE when the build has overflow checks (debug), FALSE when not
    p_i,           \* index of the clip the loop is at
    p_segment_paths,     \* the local segment_paths
    p_total_duration_ms, \* the local total_duration_ms
    p_enc,         \* the encoder of the current clip: -2 none, -1 running, else its exit status
    p_invocations, \* the encoder invocations made, in order (their arguments)
    p_disk,        \* the scratch directory: content of each segment file
    p_manifest,    \* content of concat_list.txt
    p_result       \* what export_prepare returned

\* A second export_prepare call, running at the same time on the same scratch
\* directory (p_disk, p_manifest).
VARIABLES
    o_pc,          \* its position: "idle", "loop", "done"
    o_request,     \* its request argument
    o_i            \* index of the clip its loop is at

otherVars == <<o_pc, o_request, o_i>>

prepVars == <<p_pc, p_request, p_checked, p_i, p_segment_paths, p_total_duration_ms,
              p_enc, p_invocations, p_disk, p_manifest, p_result, otherVars>>

\* ------------------------------------------- calls of the other functions
VARIABLES
    f_name,        \* the function called last ("none" before the first call)
    f_arg,         \* its argument
    f_ret          \* what it returned

funVars == <<f_name, f_arg, f_ret>>

\* -------------------------------------------------- output files of start
VARIABLES
    now,           \* the system clock, in whole seconds since the epoch
    s_kind,        \* s_kind[c]: which of the three start commands call c is
    output_path    \* output_path[c]: the local output_path of start call c

pathVars == <<now, s_kind, output_path>>

vars == <<recVars, concatVars, prepVars, funVars, pathVars>>

\* ------------------------------------------------------------ HashMap model
\* HashMap::get
MapGet(m, k) == IF \E e \in m : e[1] = k THEN (CHOOSE e \in m : e[1] = k)[2] ELSE None

\* An insert that keeps the entry the key already has.
MapInsert_KeepOld(m, k, v) == m \cup {<<k, v>>}

\* An insert that drops the entries of the other keys.
MapInsert_Alone(m, k, v) == {<<k, v>>}

\* HashMap::insert: the entry of key k is replaced (the old value is returned).
MapInsert(m, k, v) == {e \in m : e[1] # k} \cup {<<k, v>>}

\* A remove that empties the map.
MapRemove_Clear(m, k) == {}

\* HashMap::remove: the entry of key k leaves the map (its value is returned).
MapRemove(m, k) == {e \in m : e[1] # k}

Registered(i) == \E e \in processes : e[1] = i

\* The three start commands differ in the capture arguments and in the name of
\* the output file only, which the registry never reads.
Kinds == {"screen", "webcam", "combined"}

\* What a start command returns on success: output_path (its name is built from
\* the kind and a whole-second timestamp, which this specification leaves out).
OutputPath == "output_path"

Ok(v) == [code |-> "OK", value |-> v]
Err(c) == [code |-> c, value |-> <<>>]
NoResult == [code |-> "-", value |-> <<>>]

\* Suspension points at an .await (the task yields to the runtime there).
AwaitPcs == {"st_dir", "sp_wait", "sp_kill", "sp_wait2"}
\* Points inside the critical section of the registry Mutex.
CriticalPcs == {"st_insert", "sp_remove"}

Return(c, r) ==
    /\ pc' = [pc EXCEPT ![c] = "done"]
    /\ result' = [result EXCEPT ![c] = r]

\* --------------------------------------------------------------------- Init
RecInit ==
    /\ processes = {}
    /\ lock = None
    /\ op = [c \in Calls |-> "none"]
    /\ recording_id = [c \in Calls |-> "-"]
    /\ pc = [c \in Calls |-> "idle"]
    /\ child = [c \in Calls |-> None]
    /\ result = [c \in Calls |-> NoResult]
    /\ timer = [c \in Calls |-> "off"]
    /\ branch = [c \in Calls |-> "-"]
    /\ replaced = [c \in Calls |-> None]
    /\ os = [p \in Calls |-> "none"]
    /\ quitWrites = [p \in Calls |-> 0]
    /\ killSignals = [p \in Calls |-> 0]

\* Calls are invoked in index order (the index is only a name for the call).
NextCall(c) == pc[c] = "idle" /\ \A d \in Calls : d < c => pc[d] # "idle"

\* -------------------------------------------------------------------- start
\* A start command up to its first await: get_app_data_dir (PATH_ERROR when it
\* fails), then create_dir_all(..).await is pending.
StartInvoke(c, k, i) ==
    /\ NextCall(c)
    /\ k \in Kinds
    /\ op' = [op EXCEPT ![c] = "start"]
    /\ recording_id' = [recording_id EXCEPT ![c] = i]
    /\ \/ /\ pc' = [pc EXCEPT ![c] = "st_dir"]
          /\ UNCHANGED result
       \/ Return(c, Err("PATH_ERROR"))
    /\ UNCHANGED <<processes, lock, child, timer, branch, replaced, os, quitWrites,
                   killSignals>>

start_screen_recording(c, i) == StartInvoke(c, "screen", i)
start_webcam_recording(c, i) == StartInvoke(c, "webcam", i)
start_combined_recording(c, i) == StartInvoke(c, "combined", i)

IsStart(c) == op[c] = "start"
IsStop(c) == op[c] = "stop"

\* A start that spawns before the directory is known to exist, and returns the
\* directory error with the process left running.
StartSpawn_Leak(c) ==
    /\ pc[c] = "st_dir"
    /\ os' = [os EXCEPT ![c] = "running"]
    /\ \/ /\ Return(c, Err("DIR_CREATE_ERROR"))
          /\ UNCHANGED child
       \/ /\ child' = [child EXCEPT ![c] = c]
          /\ pc' = [pc EXCEPT ![c] = "st_lock"]
          /\ UNCHANGED result
    /\ UNCHANGED <<processes, lock, op, recording_id, timer, branch, replaced,
                   quitWrites, killSignals>>

\* create_dir_all returned (DIR_CREATE_ERROR when it failed); the capture
\* process is spawned (FFMPEG_ERROR when that fails; process c is the one call c
\* spawns) and the task goes on to processes.lock().
StartSpawn(c) ==
    /\ pc[c] = "st_dir"
    /\ \/ /\ Return(c, Err("DIR_CREATE_ERROR"))
          /\ UNCHANGED <<child, os>>
       \/ /\ Return(c, Err("FFMPEG_ERROR"))
          /\ UNCHANGED <<child, os>>
       \/ /\ os' = [os EXCEPT ![c] = "running"]
          /\ child' = [child EXCEPT ![c] = c]
          /\ pc' = [pc EXCEPT ![c] = "st_lock"]
          /\ UNCHANGED result
    /\ UNCHANGED <<processes, lock, op, recording_id, timer, branch, replaced,
                   quitWrites, killSignals>>

\* processes.lock().unwrap() of a start command.
StartLock(c) ==
    /\ pc[c] = "st_lock"
    /\ lock = None
    /\ lock' = c
    /\ pc' = [pc EXCEPT ![c] = "st_insert"]
    /\ UNCHANGED <<processes, op, recording_id, child, result, timer, branch,
                   replaced, os, quitWrites, killSignals>>

\* An insert after which the replaced Child is killed when it is dropped (a
\* Child spawned with kill_on_drop(true)).
StartInsert_KillOnDrop(c) ==
    LET old == MapGet(processes, recording_id[c]) IN
    /\ pc[c] = "st_insert"
    /\ lock = c
    /\ replaced' = [replaced EXCEPT ![c] = old]
    /\ processes' = MapInsert(processes, recording_id[c], child[c])
    /\ lock' = None
    /\ Return(c, Ok(OutputPath))
    /\ IF old # None /\ os[old] = "running"
       THEN /\ os' = [os EXCEPT ![old] = "killed"]
            /\ killSignals' = [killSignals EXCEPT ![old] = @ + 1]
       ELSE UNCHANGED <<os, killSignals>>
    /\ UNCHANGED <<op, recording_id, child, timer, branch, quitWrites>>

\* procs.insert(recording_id, child); Ok(output_path): the guard is dropped at
\* the end of the block, the Child insert returned is dropped without a kill.
StartInsert(c) ==
    /\ pc[c] = "st_insert"
    /\ lock = c
    /\ replaced' = [replaced EXCEPT ![c] = MapGet(processes, recording_id[c])]
    /\ processes' = MapInsert(processes, recording_id[c], child[c])
    /\ lock' = None
    /\ Return(c, Ok(OutputPath))
    /\ UNCHANGED <<op, recording_id, child, timer, branch, os, quitWrites,
                   killSignals>>

\* --------------------------------------------------------------------- stop
\* stop_screen_recording is invoked and reaches processes.lock().
stop_screen_recording(c, i) ==
    /\ NextCall(c)
    /\ op' = [op EXCEPT ![c] = "stop"]
    /\ recording_id' = [recording_id EXCEPT ![c] = i]
    /\ pc' = [pc EXCEPT ![c] = "sp_lock"]
    /\ UNCHANGED <<processes, lock, child, result, timer, branch, replaced, os,
                   quitWrites, killSignals>>

\* processes.lock().unwrap() of stop.
StopLock(c) ==
    /\ pc[c] = "sp_lock"
    /\ lock = None
    /\ lock' = c
    /\ pc' = [pc EXCEPT ![c] = "sp_remove"]
    /\ UNCHANGED <<processes, op, recording_id, child, result, timer, branch,
                   replaced, os, quitWrites, killSignals>>

\* A stop whose guard lives to the end of the function: the lock is still held
\* at the awaits that follow the remove.
StopRemove_HoldLock(c) ==
    LET h == MapGet(processes, recording_id[c]) IN
    /\ pc[c] = "sp_remove"
    /\ lock = c
    /\ processes' = MapRemove(processes, recording_id[c])
    /\ lock' = IF h = None THEN None ELSE c
    /\ child' = [child EXCEPT ![c] = h]
    /\ IF h = None
       THEN /\ Return(c, Err("RECORDING_NOT_FOUND"))
            /\ UNCHANGED <<quitWrites, timer>>
       ELSE /\ quitWrites' = [quitWrites EXCEPT
                                ![h] = IF os[h] = "running" THEN @ + 1 ELSE @]
            /\ timer' = [timer EXCEPT ![c] = "running"]
            /\ pc' = [pc EXCEPT ![c] = "sp_wait"]
            /\ UNCHANGED result
    /\ UNCHANGED <<op, recording_id, branch, replaced, os, killSignals>>

\* A stop that reads the handle with get and leaves the entry in the map.
StopRemove_Get(c) ==
    LET h == MapGet(processes, recording_id[c]) IN
    /\ pc[c] = "sp_remove"
    /\ lock = c
    /\ lock' = None
    /\ child' = [child EXCEPT ![c] = h]
    /\ IF h = None
       THEN /\ Return(c, Err("RECORDING_NOT_FOUND"))
            /\ UNCHANGED <<quitWrites, timer>>
       ELSE /\ quitWrites' = [quitWrites EXCEPT
                                ![h] = IF os[h] = "running" THEN @ + 1 ELSE @]
            /\ timer' = [timer EXCEPT ![c] = "running"]
            /\ pc' = [pc EXCEPT ![c] = "sp_wait"]
            /\ UNCHANGED result
    /\ UNCHANGED <<processes, op, recording_id, branch, replaced, os, killSignals>>

\* A stop that treats a missing id as already stopped and returns Ok(()).
StopRemove_NotFoundOk(c) ==
    LET h == MapGet(processes, recording_id[c]) IN
    /\ pc[c] = "sp_remove"
    /\ lock = c
    /\ processes' = MapRemove(processes, recording_id[c])
    /\ lock' = None
    /\ child' = [child EXCEPT ![c] = h]
    /\ IF h = None
       THEN /\ Return(c, Ok(<<>>))
            /\ UNCHANGED <<quitWrites, timer>>
       ELSE /\ quitWrites' = [quitWrites EXCEPT
                                ![h] = IF os[h] = "running" THEN @ + 1 ELSE @]
            /\ timer' = [timer EXCEPT ![c] = "running"]
            /\ pc' = [pc EXCEPT ![c] = "sp_wait"]
            /\ UNCHANGED result
    /\ UNCHANGED <<op, recording_id, branch, replaced, os, killSignals>>

\* let child = { procs.remove(&recording_id) }; the guard is dropped at the end
\* of the block. No handle: the RECORDING_NOT_FOUND envelope is returned.
\* Otherwise child.stdin.take(), write_all(b"q\n") and flush (the two bytes go
\* into the empty pipe at the first poll; they reach the process if it still
\* runs, else the write fails and the error is ignored), drop(stdin), and the
\* timed wait is pending with its timer started.
StopRemove(c) ==
    LET h == MapGet(processes, recording_id[c]) IN
    /\ pc[c] = "sp_remove"
    /\ lock = c
    /\ processes' = MapRemove(processes, recording_id[c])
    /\ lock' = None
    /\ child' = [child EXCEPT ![c] = h]
    /\ IF h = None
       THEN /\ Return(c, Err("RECORDING_NOT_FOUND"))
            /\ UNCHANGED <<quitWrites, timer>>
       ELSE /\ quitWrites' = [quitWrites EXCEPT
                                ![h] = IF os[h] = "running" THEN @ + 1 ELSE @]
            /\ timer' = [timer EXCEPT ![c] = "running"]
            /\ pc' = [pc EXCEPT ![c] = "sp_wait"]
            /\ UNCHANGED result
    /\ UNCHANGED <<op, recording_id, branch, replaced, os, killSignals>>

\* A stop that reports the error of the timed wait to its caller.
StopWait_ReportError(c) ==
    /\ pc[c] = "sp_wait"
    /\ timer' = [timer EXCEPT ![c] = "off"]
    /\ \/ /\ os[child[c]] # "running"
          /\ branch' = [branch EXCEPT ![c] = "exited"]
          /\ Return(c, Ok(<<>>))
       \/ /\ branch' = [branch EXCEPT ![c] = "wait_error"]
          /\ Return(c, Err("FFMPEG_ERROR"))
       \/ /\ os[child[c]] = "running"
          /\ timer[c] = "elapsed"
          /\ branch' = [branch EXCEPT ![c] = "timeout"]
          /\ pc' = [pc EXCEPT ![c] = "sp_kill"]
          /\ UNCHANGED result
    /\ UNCHANGED <<processes, lock, op, recording_id, child, replaced,
                   os, quitWrites, killSignals>>

\* A timed wait after which the kill follows also when the process has exited.
StopWait_AlwaysKill(c) ==
    /\ pc[c] = "sp_wait"
    /\ timer' = [timer EXCEPT ![c] = "off"]
    /\ \/ /\ os[child[c]] # "running"
          /\ branch' = [branch EXCEPT ![c] = "exited"]
       \/ branch' = [branch EXCEPT ![c] = "wait_error"]
       \/ /\ os[child[c]] = "running"
          /\ timer[c] = "elapsed"
          /\ branch' = [branch EXCEPT ![c] = "timeout"]
    /\ pc' = [pc EXCEPT ![c] = "sp_kill"]
    /\ UNCHANGED <<processes, lock, op, recording_id, child, result, replaced,
                   os, quitWrites, killSignals>>

\* match timeout(5 s, child.wait()).await:
\*   Ok(Ok(status)) the process has exited: Ok(()) is returned;
\*   Ok(Err(e))     the wait failed: kill().await is pending;
\*   Err(_)         the timer ran out with the process still running (the wait
\*                  is polled before the timer): kill().await is pending.
StopWait(c) ==
    /\ pc[c] = "sp_wait"
    /\ timer' = [timer EXCEPT ![c] = "off"]
    /\ \/ /\ os[child[c]] # "running"
          /\ branch' = [branch EXCEPT ![c] = "exited"]
          /\ Return(c, Ok(<<>>))
       \/ /\ branch' = [branch EXCEPT ![c] = "wait_error"]
          /\ pc' = [pc EXCEPT ![c] = "sp_kill"]
          /\ UNCHANGED result
       \/ /\ os[child[c]] = "running"
          /\ timer[c] = "elapsed"
          /\ branch' = [branch EXCEPT ![c] = "timeout"]
          /\ pc' = [pc EXCEPT ![c] = "sp_kill"]
          /\ UNCHANGED result
    /\ UNCHANGED <<processes, lock, op, recording_id, child, replaced,
                   os, quitWrites, killSignals>>

\* A kill that looks the process up in the registry by the id, instead of
\* using the handle the remove gave.
StopKill_ById(c) ==
    LET h == IF MapGet(processes, recording_id[c]) # None
             THEN MapGet(processes, recording_id[c]) ELSE child[c] IN
    /\ pc[c] = "sp_kill"
    /\ \/ /\ os[h] = "running"
          /\ os' = [os EXCEPT ![h] = "killed"]
          /\ killSignals' = [killSignals EXCEPT ![h] = @ + 1]
       \/ UNCHANGED <<os, killSignals>>
    /\ IF branch[c] = "wait_error"
       THEN Return(c, Ok(<<>>))
       ELSE /\ pc' = [pc EXCEPT ![c] = "sp_wait2"]
            /\ UNCHANGED result
    /\ UNCHANGED <<processes, lock, op, recording_id, child, timer, branch,
                   replaced, quitWrites>>

\* let _ = child.kill().await: the signal ends a running process, or kill fails
\* and changes nothing (its result is ignored). After a wait error stop returns
\* Ok(()); after a timeout child.wait().await follows.
StopKill(c) ==
    /\ pc[c] = "sp_kill"
    /\ \/ /\ os[child[c]] = "running"
          /\ os' = [os EXCEPT ![child[c]] = "killed"]
          /\ killSignals' = [killSignals EXCEPT ![child[c]] = @ + 1]
       \/ UNCHANGED <<os, killSignals>>
    /\ IF branch[c] = "wait_error"
       THEN Return(c, Ok(<<>>))
       ELSE /\ pc' = [pc EXCEPT ![c] = "sp_wait2"]
            /\ UNCHANGED result
    /\ UNCHANGED <<processes, lock, op, recording_id, child, timer, branch,
                   replaced, quitWrites>>

\* let _ = child.wait().await after the kill: no timeout around it, it returns
\* when the process is gone; then Ok(()).
StopWait2(c) ==
    /\ pc[c] = "sp_wait2"
    /\ os[child[c]] # "running"
    /\ Return(c, Ok(<<>>))
    /\ UNCHANGED <<processes, lock, op, recording_id, child, timer, branch,
                   replaced, os, quitWrites, killSignals>>

\* ------------------------------------------------------- stop, lib.rs
\* stop_screen_recording of lib.rs is invoked and reaches processes.lock().
lib_stop_screen_recording(c, i) ==
    /\ NextCall(c)
    /\ op' = [op EXCEPT ![c] = "stop"]
    /\ recording_id' = [recording_id EXCEPT ![c] = i]
    /\ pc' = [pc EXCEPT ![c] = "lsp_lock"]
    /\ UNCHANGED <<processes, lock, child, result, timer, branch, replaced, os,
                   quitWrites, killSignals>>

\* processes.lock().unwrap()
LibStopLock(c) ==
    /\ pc[c] = "lsp_lock"
    /\ lock = None
    /\ lock' = c
    /\ pc' = [pc EXCEPT ![c] = "lsp_remove"]
    /\ UNCHANGED <<processes, op, recording_id, child, result, timer, branch,
                   replaced, os, quitWrites, killSignals>>

\* The remove inside the lock block; no handle: RECORDING_NOT_FOUND. Otherwise
\* the quit bytes are written and flushed, stdin is dropped at the end of the
\* if-let, and sleep(500 ms).await is pending.
LibStopRemove(c) ==
    LET h == MapGet(processes, recording_id[c]) IN
    /\ pc[c] = "lsp_remove"
    /\ lock = c
    /\ processes' = MapRemove(processes, recording_id[c])
    /\ lock' = None
    /\ child' = [child EXCEPT ![c] = h]
    /\ IF h = None
       THEN /\ Return(c, Err("RECORDING_NOT_FOUND"))
            /\ UNCHANGED <<quitWrites, timer>>
       ELSE /\ quitWrites' = [quitWrites EXCEPT
                                ![h] = IF os[h] = "running" THEN @ + 1 ELSE @]
            /\ timer' = [timer EXCEPT ![c] = "running"]
            /\ pc' = [pc EXCEPT ![c] = "lsp_sleep"]
            /\ UNCHANGED result
    /\ UNCHANGED <<op, recording_id, branch, replaced, os, killSignals>>

\* The 500 ms of the sleep have passed.
LibTimerElapse(c) ==
    /\ pc[c] = "lsp_sleep"
    /\ timer[c] = "running"
    /\ timer' = [timer EXCEPT ![c] = "elapsed"]
    /\ UNCHANGED <<processes, lock, op, recording_id, pc, child, result, branch,
                   replaced, os, quitWrites, killSignals>>

\* sleep returns; child.kill().await is pending, whatever the process did.
LibStopSleep(c) ==
    /\ pc[c] = "lsp_sleep"
    /\ timer[c] = "elapsed"
    /\ timer' = [timer EXCEPT ![c] = "off"]
    /\ branch' = [branch EXCEPT ![c] = "slept"]
    /\ pc' = [pc EXCEPT ![c] = "lsp_kill"]
    /\ UNCHANGED <<processes, lock, op, recording_id, child, result, replaced,
                   os, quitWrites, killSignals>>

\* let _ = child.kill().await: the signal ends a running process, or kill fails
\* and changes nothing; child.wait().await follows.
LibStopKill(c) ==
    /\ pc[c] = "lsp_kill"
    /\ \/ /\ os[child[c]] = "running"
          /\ os' = [os EXCEPT ![child[c]] = "killed"]
          /\ killSignals' = [killSignals EXCEPT ![child[c]] = @ + 1]
       \/ UNCHANGED <<os, killSignals>>
    /\ pc' = [pc EXCEPT ![c] = "lsp_wait"]
    /\ UNCHANGED <<processes, lock, op, recording_id, child, result, timer, branch,
                   replaced, quitWrites>>

\* let _ = child.wait().await; Ok(()): it returns when the process is gone.
LibStopWait(c) ==
    /\ pc[c] = "lsp_wait"
    /\ os[child[c]] # "running"
    /\ Return(c, Ok(<<>>))
    /\ UNCHANGED <<processes, lock, op, recording_id, child, timer, branch,
                   replaced, os, quitWrites, killSignals>>

\* One step of a stop call of lib.rs.
LibStep(c) ==
    \/ LibStopLock(c)
    \/ LibStopRemove(c)
    \/ LibStopSleep(c)
    \/ LibStopKill(c)
    \/ LibStopWait(c)

\* -------------------------------------------------------------- environment
\* A capture process exits (after the quit bytes, or on its own).
ProcExit(p) ==
    /\ os[p] = "running"
    /\ os' = [os EXCEPT ![p] = "exited"]
    /\ UNCHANGED <<processes, lock, op, recording_id, pc, child, result, timer,
                   branch, replaced, quitWrites, killSignals>>

\* The 5 seconds of a pending timed wait have passed.
TimerElapse(c) ==
    /\ pc[c] = "sp_wait"
    /\ timer[c] = "running"
    /\ timer' = [timer EXCEPT ![c] = "elapsed"]
    /\ UNCHANGED <<processes, lock, op, recording_id, pc, child, result, branch,
                   replaced, os, quitWrites, killSignals>>

\* One step of the task of call c.
Step(c) ==
    \/ StartSpawn(c)
    \/ StartLock(c)
    \/ StartInsert(c)
    \/ StopLock(c)
    \/ StopRemove(c)
    \/ StopWait(c)
    \/ StopKill(c)
    \/ StopWait2(c)

Invoke(c) ==
    \E i \in RecordingIds :
        \/ start_screen_recording(c, i)
        \/ start_webcam_recording(c, i)
        \/ start_combined_recording(c, i)
        \/ stop_screen_recording(c, i)

\* ------------------------------------------------------------ concat driver
\* Longest diagnostic stream (in lines) the encoder writes in one run.
MaxLines == 3

NoTime == -1

\* A field of a time text: numeric (its value in thousandths) or not.
Num(th) == [num |-> TRUE, th |-> th]
NaF == [num |-> FALSE, th |-> 0]

\* A line of the diagnostic stream: valid UTF-8 or not, and the texts that
\* follow each "time=" in it (up to the next white space), each split at ':'.
Line(ms) == [utf8 |-> TRUE, markers |-> ms]
BadUtf8Line == [utf8 |-> FALSE, markers |-> <<>>]

TimeTexts ==
    { <<Num(0), Num(0), Num(2000)>>,        \* 00:00:02.00
      <<Num(0), Num(0), Num(2010)>>,        \* 00:00:02.01
      <<Num(0), Num(0), Num(5000)>>,        \* 00:00:05.00
      <<Num(0), Num(0), Num(12000)>> }      \* 00:00:12.00
BadTimeTexts ==
    { <<Num(1000), Num(2000)>>,             \* 1:2
      <<NaF, NaF, NaF>> }                   \* a:b:c

LineSamples ==
    {Line(<<>>)} \cup {Line(<<t>>) : t \in TimeTexts \cup BadTimeTexts}
    \cup {Line(<<<<NaF, NaF, NaF>>, <<Num(0), Num(0), Num(5000)>>>>),
          Line(<<<<Num(0), Num(0), Num(2000)>>, <<Num(0), Num(0), Num(5000)>>>>),
          BadUtf8Line}

Scripts == UNION {[1..n -> LineSamples] : n \in 0..MaxLines}

Totals == {0, 4000, 10000}

\* The decimal times below 13 s with two fractional digits (the encoder's
\* format), in thousandths, whose nearest f64 multiplied by 1000.0 is an f64
\* just below the whole number of milliseconds: 2.01 is stored as
\* 2.00999999999999978..., and 2.01 * 1000.0 is 2009.9999999999998.
F64BelowWhole == {2010, 2030, 4020, 4060, 8030, 8040, 8110, 8120, 8190}

\* (total_seconds * 1000.0) as u64 for the f64 nearest th / 1000: the cast
\* truncates toward zero and saturates a negative value to 0.
F64Millis(th) ==
    IF th < 0 THEN 0
    ELSE IF th \in F64BelowWhole THEN th - 1
    ELSE th

\* parse_ffmpeg_time: three ':'-separated fields, each parsed as f64;
\* (hours * 3600 + minutes * 60 + seconds) * 1000 as u64.
parse_ffmpeg_time(time_str) ==
    IF Len(time_str) # 3 THEN NoTime
    ELSE IF \E k \in 1..3 : ~time_str[k].num THEN NoTime
    ELSE F64Millis(time_str[1].th * 3600 + time_str[2].th * 60 + time_str[3].th)

\* The quotient without the .min(1.0).
Progress_NoClamp(current_ms, total_ms) == <<current_ms, total_ms>>

\* (current_ms as f32 / total_duration_ms as f32).min(1.0), as a fraction
\* <<numerator, denominator>>; x / 0 is inf or NaN and min(1.0) makes it 1.0.
Progress(current_ms, total_ms) ==
    IF total_ms = 0 \/ current_ms >= total_ms THEN <<1, 1>> ELSE <<current_ms, total_ms>>

ExportProgress(st, pr, cur, tot) ==
    [stage |-> st, progress |-> pr, current_ms |-> cur, total_ms |-> tot]

\* The events the body of the reading loop emits for one line: the text after
\* the first "time=" only (split("time=").nth(1)), when it parses.
LineEvents(line, total_ms) ==
    IF line.markers = <<>> THEN <<>>
    ELSE LET current_ms == parse_ffmpeg_time(line.markers[1]) IN
         IF current_ms = NoTime THEN <<>>
         ELSE <<ExportProgress("concat", Progress(current_ms, total_ms),
                               current_ms, total_ms)>>

\* The "complete" event emitted before Ok(()).
CompleteEvent(total_ms) == ExportProgress("complete", <<1, 1>>, total_ms, total_ms)

ConcatIdle ==
    /\ c_pc = "idle"
    /\ c_total = 0
    /\ c_script = <<>>
    /\ c_pipe = <<>>
    /\ c_open = FALSE
    /\ c_reader = "none"
    /\ c_exit = -1
    /\ c_status = "none"
    /\ c_events = <<>>
    /\ c_written = <<>>
    /\ c_result = NoResult

\* export_concat is invoked: the encoder is spawned with its stderr piped
\* (FFMPEG_ERROR when the spawn fails) and the first next_line().await is pending.
export_concat(total, script) ==
    /\ c_pc = "idle"
    /\ c_total' = total
    /\ \/ /\ c_pc' = "done"
          /\ c_result' = Err("FFMPEG_ERROR")
          /\ UNCHANGED <<c_script, c_open, c_reader>>
       \/ /\ c_pc' = "reading"
          /\ c_script' = script
          /\ c_open' = TRUE
          /\ c_reader' = "open"
          /\ UNCHANGED c_result
    /\ UNCHANGED <<c_pipe, c_exit, c_status, c_events, c_written>>

\* while let Ok(Some(line)) = lines.next_line().await: a line is read and its
\* event, if any, emitted; a line that is not valid UTF-8 makes next_line
\* return Err, which ends the loop (the reader is dropped with it).
ConcatReadLine ==
    /\ c_pc = "reading"
    /\ c_pipe # <<>>
    /\ IF Head(c_pipe).utf8
       THEN /\ c_events' = c_events \o LineEvents(Head(c_pipe), c_total)
            /\ c_pipe' = Tail(c_pipe)
            /\ UNCHANGED <<c_pc, c_reader>>
       ELSE /\ c_reader' = "error"
            /\ c_pc' = "waiting"
            /\ c_pipe' = <<>>
            /\ UNCHANGED c_events
    /\ UNCHANGED <<c_total, c_script, c_open, c_exit, c_status, c_written, c_result>>

\* next_line returns Ok(None): the stream is at its end, the loop ends and
\* child.wait().await is pending.
ConcatReadEof ==
    /\ c_pc = "reading"
    /\ c_pipe = <<>>
    /\ ~c_open
    /\ c_reader' = "eof"
    /\ c_pc' = "waiting"
    /\ UNCHANGED <<c_total, c_script, c_pipe, c_open, c_exit, c_status, c_events,
                   c_written, c_result>>

\* A driver that emits "complete" as soon as the wait returned a status, before
\* it looks at the status.
ConcatWait_EmitFirst ==
    /\ c_pc = "waiting"
    /\ c_exit # -1
    /\ c_pc' = "done"
    /\ \/ /\ c_status' = "err"
          /\ c_result' = Err("FFMPEG_ERROR")
          /\ UNCHANGED c_events
       \/ /\ c_status' = "ok"
          /\ c_events' = Append(c_events, CompleteEvent(c_total))
          /\ c_result' = IF c_exit # 0 THEN Err("EXPORT_FAILED") ELSE Ok(<<>>)
    /\ UNCHANGED <<c_total, c_script, c_pipe, c_open, c_reader, c_exit, c_written>>

\* A driver that takes a run whose last event has fraction 1.0 for a success,
\* whatever the exit status.
ConcatWait_ByProgress ==
    /\ c_pc = "waiting"
    /\ c_exit # -1
    /\ c_pc' = "done"
    /\ \/ /\ c_status' = "err"
          /\ c_result' = Err("FFMPEG_ERROR")
          /\ UNCHANGED c_events
       \/ /\ c_status' = "ok"
          /\ IF c_exit # 0 /\ (c_events = <<>> \/ c_events[Len(c_events)].progress # <<1, 1>>)
             THEN /\ c_result' = Err("EXPORT_FAILED")
                  /\ UNCHANGED c_events
             ELSE /\ c_events' = Append(c_events, CompleteEvent(c_total))
                  /\ c_result' = Ok(<<>>)
    /\ UNCHANGED <<c_total, c_script, c_pipe, c_open, c_reader, c_exit, c_written>>

\* child.wait().await returns: FFMPEG_ERROR when the wait failed, EXPORT_FAILED
\* when the status is not success, else the "complete" event and Ok(()).
ConcatWait ==
    /\ c_pc = "waiting"
    /\ c_exit # -1
    /\ c_pc' = "done"
    /\ \/ /\ c_status' = "err"
          /\ c_result' = Err("FFMPEG_ERROR")
          /\ UNCHANGED c_events
       \/ /\ c_status' = "ok"
          /\ IF c_exit # 0
             THEN /\ c_result' = Err("EXPORT_FAILED")
                  /\ UNCHANGED c_events
             ELSE /\ c_events' = Append(c_events, CompleteEvent(c_total))
                  /\ c_result' = Ok(<<>>)
    /\ UNCHANGED <<c_total, c_script, c_pipe, c_open, c_reader, c_exit, c_written>>

\* The encoder writes its next diagnostic line; it is lost when the read end
\* of the pipe has been dropped.
EncWrite ==
    /\ c_exit = -1
    /\ c_open
    /\ c_script # <<>>
    /\ c_script' = Tail(c_script)
    /\ c_pipe' = IF c_reader = "open" THEN Append(c_pipe, Head(c_script)) ELSE c_pipe
    /\ c_written' = Append(c_written, Head(c_script))
    /\ UNCHANGED <<c_pc, c_total, c_open, c_reader, c_exit, c_status, c_events,
                   c_result>>

\* The encoder exits with a status, which closes its end of the stream.
EncExit(st) ==
    /\ c_exit = -1
    /\ c_open
    /\ c_script = <<>>
    /\ c_exit' = st
    /\ c_open' = FALSE
    /\ UNCHANGED <<c_pc, c_total, c_script, c_pipe, c_reader, c_status, c_events,
                   c_written, c_result>>

\* ---------------------------------------------------------- segment builder
\* Most clips one request carries.
MaxClips == 2

\* The u64 range of in_ms, out_ms and total_duration_ms, scaled down to 16 bits.
U64Range == 65536

\* The source paths that exist on disk.
ExistingSources == {"a.mp4", "b.mp4"}

ExportClip(path, i, o) == [asset_path |-> path, in_ms |-> i, out_ms |-> o]
ClipSamples ==
    { ExportClip("a.mp4", 0, 1000),
      ExportClip("b.mp4", 2000, 5000),
      ExportClip("gone.mp4", 0, 1000),      \* no such file
      ExportClip("a.mp4", 5000, 2000),      \* out_ms < in_ms
      ExportClip("b.mp4", 0, 60000) }       \* two of them exceed the range

ExportRequest(cs, w, h) == [clips |-> cs, width |-> w, height |-> h]
Requests ==
    { ExportRequest(cs, w, h) :
        cs \in UNION {[1..n -> ClipSamples] : n \in 0..MaxClips},
        w \in {None, 1280}, h \in {None, 720} }

ExportDir == "app_data/export_temp"

\* format!("{:04}", i): the decimal digits of i, zero-padded to four.
RECURSIVE Digits(_)
Digits(i) == IF i < 10 THEN <<i>> ELSE Append(Digits(i \div 10), i % 10)
Pad4(i) ==
    LET ds == Digits(i)
    IN  [k \in 1..(4 - Len(ds)) |-> 0] \o ds

\* export_dir.join(format!("segment_{:04}.mp4", i))
segment_path(i) == <<ExportDir, <<"segment_", Pad4(i), ".mp4">>>>

\* export_dir.join("concat_list.txt")
list_file == <<ExportDir, "concat_list.txt">>

SegmentFiles == {segment_path(i) : i \in 0..(MaxClips - 1)}

\* clip.out_ms - clip.in_ms in u64, when it does not panic.
duration_ms(clip) == (clip.out_ms - clip.in_ms) % U64Range

\* A total that keeps the last duration only.
Accumulate_Last(total, d) == d

\* total_duration_ms += duration_ms in u64, when it does not panic.
Accumulate(total, d) == (total + d) % U64Range

\* Arguments with a scale filter as soon as one dimension is given.
EncoderArgs_ScaleIfAny(request, clip, i) ==
    [ss |-> clip.in_ms, input |-> clip.asset_path, t |-> duration_ms(clip),
     vf |-> IF request.width # None \/ request.height # None
            THEN <<"scale", request.width, request.height>> ELSE <<>>,
     output |-> segment_path(i)]

\* The arguments of the encoder invocation for a clip: seek, input, length,
\* the scale filter when both width and height are given, and the output.
EncoderArgs(request, clip, i) ==
    [ss |-> clip.in_ms, input |-> clip.asset_path, t |-> duration_ms(clip),
     vf |-> IF request.width # None /\ request.height # None
            THEN <<"scale", request.width, request.height>> ELSE <<>>,
     output |-> segment_path(i)]

\* A manifest whose lines are in reverse order.
ListContent_Reversed(paths) ==
    [k \in 1..Len(paths) |-> <<"file '", paths[Len(paths) + 1 - k], "'\n">>]

\* list_content: format!("file '{}'\n", segment_path) for each segment.
ListContent(paths) == [k \in 1..Len(paths) |-> <<"file '", paths[k], "'\n">>]

ExportPrepareResult(paths, total) ==
    [segment_paths |-> paths, list_file |-> list_file, total_duration_ms |-> total]

SegmentFailed(i) == [code |-> "SEGMENT_FAILED", value |-> i]

\* Encoder states that are not an exit status.
NoEncoder == -2
Running == -1

\* Content of a file of the scratch directory: absent, left by an earlier
\* export, partly written, or written by this call (what was written).
File(kind, content) == [kind |-> kind, content |-> content]
NoFile == File("none", <<>>)
OldFile == File("old", <<>>)
PartialFile == File("partial", <<>>)

PrepareIdle ==
    /\ p_pc = "idle"
    /\ p_request = ExportRequest(<<>>, None, None)
    /\ p_checked = FALSE
    /\ p_i = 0
    /\ p_segment_paths = <<>>
    /\ p_total_duration_ms = 0
    /\ p_enc = NoEncoder
    /\ p_invocations = <<>>
    /\ p_disk = [f \in SegmentFiles |-> NoFile]
    /\ p_manifest = NoFile
    /\ p_result = NoResult
    /\ o_pc = "idle"
    /\ o_request = ExportRequest(<<>>, None, None)
    /\ o_i = 0

\* An earlier export has left its segment files and its manifest in the
\* scratch directory.
EarlierExport ==
    /\ p_pc = "idle"
    /\ p_manifest = NoFile
    /\ p_disk' = [f \in SegmentFiles |-> OldFile]
    /\ p_manifest' = OldFile
    /\ UNCHANGED <<p_pc, p_request, p_checked, p_i, p_segment_paths,
                   p_total_duration_ms, p_enc, p_invocations, p_result>>

PrepareReturn(r) == p_pc' = "done" /\ p_result' = r

\* export_prepare is invoked: get_app_data_dir (PATH_ERROR), then
\* create_dir_all(export_dir).await is pending.
export_prepare(request, checked) ==
    /\ p_pc = "idle"
    /\ p_request' = request
    /\ p_checked' = checked
    /\ \/ PrepareReturn(Err("PATH_ERROR"))
       \/ p_pc' = "mkdir" /\ UNCHANGED p_result
    /\ UNCHANGED <<p_i, p_segment_paths, p_total_duration_ms, p_enc, p_invocations,
                   p_disk, p_manifest>>

\* create_dir_all returns: DIR_CREATE_ERROR, or the loop starts with an empty
\* segment_paths and total_duration_ms = 0.
PrepareMkdir ==
    /\ p_pc = "mkdir"
    /\ \/ PrepareReturn(Err("DIR_CREATE_ERROR"))
       \/ p_pc' = "loop" /\ UNCHANGED p_result
    /\ UNCHANGED <<p_request, p_checked, p_i, p_segment_paths, p_total_duration_ms,
                   p_enc, p_invocations, p_disk, p_manifest>>

\* A loop that does not look whether the source exists.
PrepareClip_NoCheck ==
    /\ p_pc = "loop"
    /\ p_i < Len(p_request.clips)
    /\ LET clip == p_request.clips[p_i + 1] IN
       IF p_checked /\ (clip.out_ms < clip.in_ms
                        \/ p_total_duration_ms + duration_ms(clip) >= U64Range)
       THEN /\ p_pc' = "panicked"
            /\ UNCHANGED <<p_total_duration_ms, p_enc, p_invocations, p_result>>
       ELSE /\ p_total_duration_ms' = Accumulate(p_total_duration_ms, duration_ms(clip))
            /\ \/ /\ PrepareReturn(Err("FFMPEG_ERROR"))
                  /\ UNCHANGED <<p_enc, p_invocations>>
               \/ /\ p_pc' = "encode"
                  /\ p_enc' = Running
                  /\ p_invocations' =
                        Append(p_invocations, EncoderArgs(p_request, clip, p_i))
                  /\ UNCHANGED p_result
    /\ UNCHANGED <<p_request, p_checked, p_i, p_segment_paths, p_disk, p_manifest>>

\* One iteration of the loop up to the .output().await: FILE_NOT_FOUND when
\* the source does not exist; the duration and the total (an overflow panics
\* in a build with overflow checks and wraps in one without); the encoder is
\* spawned (FFMPEG_ERROR when it cannot be run).
PrepareClip ==
    /\ p_pc = "loop"
    /\ p_i < Len(p_request.clips)
    /\ LET clip == p_request.clips[p_i + 1] IN
       IF clip.asset_path \notin ExistingSources
       THEN /\ PrepareReturn(Err("FILE_NOT_FOUND"))
            /\ UNCHANGED <<p_total_duration_ms, p_enc, p_invocations>>
       ELSE IF p_checked /\ (clip.out_ms < clip.in_ms
                             \/ p_total_duration_ms + duration_ms(clip) >= U64Range)
       THEN /\ p_pc' = "panicked"
            /\ UNCHANGED <<p_total_duration_ms, p_enc, p_invocations, p_result>>
       ELSE /\ p_total_duration_ms' = Accumulate(p_total_duration_ms, duration_ms(clip))
            /\ \/ /\ PrepareReturn(Err("FFMPEG_ERROR"))
                  /\ UNCHANGED <<p_enc, p_invocations>>
               \/ /\ p_pc' = "encode"
                  /\ p_enc' = Running
                  /\ p_invocations' =
                        Append(p_invocations, EncoderArgs(p_request, clip, p_i))
                  /\ UNCHANGED p_result
    /\ UNCHANGED <<p_request, p_checked, p_i, p_segment_paths, p_disk, p_manifest>>

\* The encoder of the current clip exits: with status 0 it has written the
\* segment file (-y: over whatever was there); with another status it has
\* left the file as it was or left a partial one.
EncoderExit(st) ==
    /\ p_enc = Running
    /\ p_enc' = st
    /\ LET args == p_invocations[Len(p_invocations)] IN
       IF st = 0
       THEN p_disk' = [p_disk EXCEPT ![args.output] = File("segment", <<args>>)]
       ELSE \/ p_disk' = [p_disk EXCEPT ![args.output] = PartialFile]
            \/ UNCHANGED p_disk
    /\ UNCHANGED <<p_pc, p_request, p_checked, p_i, p_segment_paths,
                   p_total_duration_ms, p_invocations, p_manifest, p_result>>

\* A loop that removes the segments it made when a clip fails.
PrepareCollect_Cleanup ==
    /\ p_pc = "encode"
    /\ p_enc \notin {NoEncoder, Running}
    /\ IF p_enc # 0
       THEN /\ PrepareReturn(SegmentFailed(p_i))
            /\ p_disk' = [f \in SegmentFiles |-> NoFile]
            /\ UNCHANGED <<p_i, p_segment_paths>>
       ELSE /\ p_segment_paths' = Append(p_segment_paths, segment_path(p_i))
            /\ p_i' = p_i + 1
            /\ p_pc' = "loop"
            /\ UNCHANGED <<p_result, p_disk>>
    /\ p_enc' = NoEncoder
    /\ UNCHANGED <<p_request, p_checked, p_total_duration_ms, p_invocations,
                   p_manifest>>

\* A loop that runs the encoder of a clip again when it failed.
PrepareCollect_Retry ==
    /\ p_pc = "encode"
    /\ p_enc \notin {NoEncoder, Running}
    /\ IF p_enc # 0
       THEN /\ p_pc' = "loop"
            /\ UNCHANGED <<p_i, p_segment_paths, p_result>>
       ELSE /\ p_segment_paths' = Append(p_segment_paths, segment_path(p_i))
            /\ p_i' = p_i + 1
            /\ p_pc' = "loop"
            /\ UNCHANGED p_result
    /\ p_enc' = NoEncoder
    /\ UNCHANGED <<p_request, p_checked, p_total_duration_ms, p_invocations,
                   p_disk, p_manifest>>

\* .output().await returns: SEGMENT_FAILED naming the index when the status is
\* not success, else the segment path is pushed and the loop goes on.
PrepareCollect ==
    /\ p_pc = "encode"
    /\ p_enc \notin {NoEncoder, Running}
    /\ IF p_enc # 0
       THEN /\ PrepareReturn(SegmentFailed(p_i))
            /\ UNCHANGED <<p_i, p_segment_paths>>
       ELSE /\ p_segment_paths' = Append(p_segment_paths, segment_path(p_i))
            /\ p_i' = p_i + 1
            /\ p_pc' = "loop"
            /\ UNCHANGED p_result
    /\ p_enc' = NoEncoder
    /\ UNCHANGED <<p_request, p_checked, p_total_duration_ms, p_invocations,
                   p_disk, p_manifest>>

\* An end of the loop that returns at once, without a manifest, when there is
\* no segment.
PrepareList_SkipEmpty ==
    /\ p_pc = "loop"
    /\ p_i = Len(p_request.clips)
    /\ IF p_segment_paths = <<>>
       THEN PrepareReturn(Ok(ExportPrepareResult(<<>>, 0)))
       ELSE p_pc' = "write" /\ UNCHANGED p_result
    /\ UNCHANGED <<p_request, p_checked, p_i, p_segment_paths, p_total_duration_ms,
                   p_enc, p_invocations, p_disk, p_manifest>>

\* The loop is over: list_content is built and fs::write(list_file).await is
\* pending.
PrepareList ==
    /\ p_pc = "loop"
    /\ p_i = Len(p_request.clips)
    /\ p_pc' = "write"
    /\ UNCHANGED <<p_request, p_checked, p_i, p_segment_paths, p_total_duration_ms,
                   p_enc, p_invocations, p_disk, p_manifest, p_result>>

\* fs::write returns: the manifest holds list_content and the result is
\* returned, or FILE_WRITE_ERROR (the file is as it was, or partly written).
PrepareWrite ==
    /\ p_pc = "write"
    /\ \/ /\ p_manifest' = File("list", ListContent(p_segment_paths))
          /\ PrepareReturn(Ok(ExportPrepareResult(p_segment_paths, p_total_duration_ms)))
       \/ /\ PrepareReturn(Err("FILE_WRITE_ERROR"))
          /\ \/ p_manifest' = PartialFile
             \/ UNCHANGED p_manifest
    /\ UNCHANGED <<p_request, p_checked, p_i, p_segment_paths, p_total_duration_ms,
                   p_enc, p_invocations, p_disk>>

\* ---------------------------------------------- two calls of export_prepare
\* Requests of two calls that run at the same time: clips of existing sources
\* with out_ms > in_ms, no scaling.
SharedRequests ==
    { ExportRequest(<<ExportClip("a.mp4", 0, 1000)>>, None, None),
      ExportRequest(<<ExportClip("b.mp4", 2000, 5000), ExportClip("a.mp4", 0, 1000)>>,
                    None, None) }

\* The other call is invoked; its get_app_data_dir and create_dir_all succeed
\* (the directory exists) and its loop starts.
OtherPrepare(request) ==
    /\ o_pc = "idle"
    /\ o_request' = request
    /\ o_i' = 0
    /\ o_pc' = "loop"
    /\ UNCHANGED <<p_pc, p_request, p_checked, p_i, p_segment_paths,
                   p_total_duration_ms, p_enc, p_invocations, p_disk, p_manifest,
                   p_result>>

\* One iteration of the loop of the other call: its encoder for clip o_i has
\* run and exited with status 0, having written segment_<o_i> (-y).
OtherSegment ==
    /\ o_pc = "loop"
    /\ o_i < Len(o_request.clips)
    /\ p_disk' = [p_disk EXCEPT ![segment_path(o_i)] =
                     File("segment", <<EncoderArgs(o_request, o_request.clips[o_i + 1], o_i)>>)]
    /\ o_i' = o_i + 1
    /\ UNCHANGED <<o_pc, o_request>>
    /\ UNCHANGED <<p_pc, p_request, p_checked, p_i, p_segment_paths,
                   p_total_duration_ms, p_enc, p_invocations, p_manifest, p_result>>

\* The loop of the other call is over: it writes its manifest and returns.
OtherWrite ==
    /\ o_pc = "loop"
    /\ o_i = Len(o_request.clips)
    /\ p_manifest' = File("list", ListContent([k \in 1..o_i |-> segment_path(k - 1)]))
    /\ o_pc' = "done"
    /\ UNCHANGED <<o_request, o_i>>
    /\ UNCHANGED <<p_pc, p_request, p_checked, p_i, p_segment_paths,
                   p_total_duration_ms, p_enc, p_invocations, p_disk, p_result>>

\* ------------------------------------------- builds for another platform
\* A start command that spawns and registers on every platform.
StartUnsupported_Registers(c, k, i) ==
    /\ NextCall(c)
    /\ k \in Kinds
    /\ op' = [op EXCEPT ![c] = "start"]
    /\ recording_id' = [recording_id EXCEPT ![c] = i]
    /\ os' = [os EXCEPT ![c] = "running"]
    /\ child' = [child EXCEPT ![c] = c]
    /\ processes' = MapInsert(processes, i, c)
    /\ Return(c, Ok(OutputPath))
    /\ UNCHANGED <<lock, timer, branch, replaced, quitWrites, killSignals>>

\* A start command (screen, webcam or combined) compiled for a target other
\* than macOS: its body is the cfg(not(target_os = "macos")) block alone.
StartUnsupported(c, k, i) ==
    /\ NextCall(c)
    /\ k \in Kinds
    /\ op' = [op EXCEPT ![c] = "start"]
    /\ recording_id' = [recording_id EXCEPT ![c] = i]
    /\ Return(c, Err("PLATFORM_NOT_SUPPORTED"))
    /\ UNCHANGED <<processes, lock, child, timer, branch, replaced, os, quitWrites,
                   killSignals>>

\* list_screen_devices compiled for a target other than macOS.
ListUnsupported(c) ==
    /\ NextCall(c)
    /\ op' = [op EXCEPT ![c] = "list"]
    /\ Return(c, Err("PLATFORM_NOT_SUPPORTED"))
    /\ UNCHANGED <<processes, lock, recording_id, child, timer, branch, replaced, os,
                   quitWrites, killSignals>>

\* --------------------------------------------------------- device listing
\* Most lines of a device list text.
MaxTextLines == 4

\* A line of the text `ffmpeg -f avfoundation -list_devices true -i ""` prints
\* on stderr, by what list_screen_devices looks at: the two section headers, a
\* line with "[AVFoundation" and "] [<id>] <name>" ("entry"), one with
\* "[AVFoundation" and no "] [" ("message"), one that ends with "] [<id>]"
\* ("cut": nothing follows the id), and any other line.
DevLine(kind, id, name) == [kind |-> kind, id |-> id, name |-> name]
DevLineSamples ==
    { DevLine("video_header", "", ""),
      DevLine("audio_header", "", ""),
      DevLine("entry", "0", "FaceTime HD Camera"),
      DevLine("entry", "1", "Capture screen 0"),
      DevLine("entry", "0", "Built-in Microphone"),
      DevLine("message", "", ""),
      DevLine("cut", "0", ""),
      DevLine("other", "", "") }
DevTexts == UNION {[1..n -> DevLineSamples] : n \in 0..MaxTextLines}

ScreenDevice(id, name, type) == [id |-> id, name |-> name, device_type |-> type]

\* device_name.starts_with("Capture screen")
IsCaptureScreen(name) == name \in {"Capture screen 0", "Capture screen 1"}

Panicked == [code |-> "PANIC", value |-> <<>>]

\* The loop over stderr.lines(): st is [in_video, in_audio, devices, panic].
\* The slice line[bracket_start+3+bracket_end+2..] of a "cut" line starts
\* beyond the end of the line, which panics.
RECURSIVE ParseDeviceLines(_, _)
ParseDeviceLines(lines, st) ==
    IF lines = <<>> \/ st.panic THEN st
    ELSE LET line == Head(lines) IN
         ParseDeviceLines(Tail(lines),
            IF line.kind = "video_header"
            THEN [st EXCEPT !.in_video = TRUE, !.in_audio = FALSE]
            ELSE IF line.kind = "audio_header"
            THEN [st EXCEPT !.in_video = FALSE, !.in_audio = TRUE]
            ELSE IF ~(st.in_video \/ st.in_audio) \/ line.kind \in {"other", "message"}
            THEN st
            ELSE IF line.kind = "cut"
            THEN [st EXCEPT !.panic = TRUE]
            ELSE IF st.in_video
            THEN IF IsCaptureScreen(line.name)
                 THEN [st EXCEPT !.devices = Append(@, ScreenDevice(line.id, line.name, "screen"))]
                 ELSE st
            ELSE [st EXCEPT !.devices = Append(@, ScreenDevice(line.id, line.name, "audio"))])

ParseDevices(text) ==
    ParseDeviceLines(text, [in_video |-> FALSE, in_audio |-> FALSE, devices |-> <<>>,
                            panic |-> FALSE])

HasType(devices, type) == \E k \in 1..Len(devices) : devices[k].device_type = type

\* Defaults that are added only when nothing at all was parsed.
AddDefaults_IfEmpty(devices) ==
    IF devices = <<>>
    THEN <<ScreenDevice("0", "Capture screen 0", "screen"),
           ScreenDevice("0", "Default microphone", "audio")>>
    ELSE devices

\* "Add default devices if none found": a default screen when the list is
\* empty or has no screen, then a default microphone when it has no audio.
AddDefaults(devices) ==
    LET with_screen ==
            IF devices = <<>> \/ ~HasType(devices, "screen")
            THEN Append(devices, ScreenDevice("0", "Capture screen 0", "screen"))
            ELSE devices
    IN  IF ~HasType(with_screen, "audio")
        THEN Append(with_screen, ScreenDevice("0", "Default microphone", "audio"))
        ELSE with_screen

FunIdle ==
    /\ f_name = "none"
    /\ f_arg = <<>>
    /\ f_ret = NoResult

\* list_screen_devices on macOS, from the invocation to the return: the
\* toolchain cannot be run (FFMPEG_ERROR), or its stderr text is parsed and the
\* devices, with the defaults, are returned.
list_screen_devices(text) ==
    /\ f_name = "none"
    /\ f_name' = "list"
    /\ f_arg' = text
    /\ \/ f_ret' = Err("FFMPEG_ERROR")
       \/ LET st == ParseDevices(text) IN
          f_ret' = IF st.panic THEN Panicked ELSE Ok(AddDefaults(st.devices))

\* ----------------------------------------------------- time and rate codec
\* Time texts handed to parse_ffmpeg_time: those of the diagnostic stream and
\* 01:02:03.500, 00:01:00.00, 1:2:3:4 and the empty text (one empty field).
ParseTimeSamples ==
    TimeTexts \cup BadTimeTexts
    \cup { <<Num(1000), Num(2000), Num(3500)>>,
           <<Num(0), Num(1000), Num(0)>>,
           <<Num(1000), Num(2000), Num(3000), Num(4000)>>,
           <<Num(0), NaF, Num(5000)>>,
           <<NaF>> }

\* A call of parse_ffmpeg_time.
ParseTimeCall(time_str) ==
    /\ f_name = "none"
    /\ f_name' = "parse_ffmpeg_time"
    /\ f_arg' = time_str
    /\ f_ret' = parse_ffmpeg_time(time_str)

NoRate == <<>>

\* Rate texts, split at '/': 30/1, 30000/1001, 25/2, 0/1, 30/0, 0/0, 30, the
\* empty text, a/1, 30/b and 1/2/3 (the value of a numeric part in units).
RateSamples ==
    { <<Num(30), Num(1)>>,
      <<Num(30000), Num(1001)>>,
      <<Num(25), Num(2)>>,
      <<Num(0), Num(1)>>,
      <<Num(30), Num(0)>>,
      <<Num(0), Num(0)>>,
      <<Num(30)>>,
      <<NaF>>,
      <<NaF, Num(1)>>,
      <<Num(30), NaF>>,
      <<Num(1), Num(2), Num(3)>> }

\* A quotient computed whatever the denominator is.
parse_frame_rate_NoZeroCheck(rate_str) ==
    IF Len(rate_str) # 2 THEN NoRate
    ELSE IF ~rate_str[1].num THEN NoRate
    ELSE IF ~rate_str[2].num THEN NoRate
    ELSE <<rate_str[1].th, rate_str[2].th>>

\* parse_frame_rate: two '/'-separated parts, each parsed as f64, none for a
\* zero denominator; the quotient num / den is the fraction <<num, den>>.
parse_frame_rate(rate_str) ==
    IF Len(rate_str) # 2 THEN NoRate
    ELSE IF ~rate_str[1].num THEN NoRate
    ELSE IF ~rate_str[2].num THEN NoRate
    ELSE IF rate_str[2].th = 0 THEN NoRate
    ELSE <<rate_str[1].th, rate_str[2].th>>

\* A call of parse_frame_rate.
ParseRateCall(rate_str) ==
    /\ f_name = "none"
    /\ f_name' = "parse_frame_rate"
    /\ f_arg' = rate_str
    /\ f_ret' = parse_frame_rate(rate_str)

\* a.max(b) and a.min(b) of u64
U64Max(a, b) == IF a >= b THEN a ELSE b
U64Min(a, b) == IF a <= b THEN a ELSE b

\* Durations handed to calculate_thumbnail_time: every 499th millisecond up
\* to a minute, the values around the two clamps, and large values (none of
\* the three operations of the function can overflow, so a large value
\* behaves as every larger one up to 2^64 - 1).
ThumbDurations ==
    {k * 499 : k \in 0..120}
    \cup {1, 9, 10, 4990, 4999, 5000, 5009, 5010, 20000, 49990, 49999, 50000, 50009,
          50010, 100000, 1000000000, 2147483647}

\* The clamp without its lower limit.
calculate_thumbnail_time_NoFloor(d_ms) ==
    LET ten_percent == d_ms \div 10 IN
    U64Min(ten_percent, 5000)

\* calculate_thumbnail_time of ffmpeg/parsers.rs
calculate_thumbnail_time(d_ms) ==
    LET ten_percent == d_ms \div 10 IN
    U64Min(U64Max(ten_percent, 500), 5000)

\* calculate_thumbnail_time of lib.rs
lib_calculate_thumbnail_time(d_ms) ==
    LET ten_percent == d_ms \div 10
        time == U64Min(U64Max(ten_percent, 500), 5000)
    IN  time

\* A call of both revisions of calculate_thumbnail_time on one duration.
ThumbnailCall(d_ms) ==
    /\ f_name = "none"
    /\ f_name' = "calculate_thumbnail_time"
    /\ f_arg' = <<d_ms>>
    /\ f_ret' = <<calculate_thumbnail_time(d_ms),
                  lib_calculate_thumbnail_time(d_ms)>>

\* --------------------------------------------------------- process locator
Homebrew == "/opt/homebrew/bin/ffmpeg"
UsrLocal == "/usr/local/bin/ffmpeg"
NotFound == "not found"

\* An environment: the files that exist, and the file the OS search path
\* gives for the name "ffmpeg" (NotFound when no directory of it holds one).
Environments ==
    { e \in [exists : SUBSET {Homebrew, UsrLocal},
             path : {Homebrew, UsrLocal, "/usr/bin/ffmpeg", NotFound}] :
        e.path \in {Homebrew, UsrLocal} => e.path \in e.exists }

\* get_ffmpeg_path: the first of the two installation paths that exists,
\* else the bare name.
get_ffmpeg_path(e) ==
    IF Homebrew \in e.exists THEN Homebrew
    ELSE IF UsrLocal \in e.exists THEN UsrLocal
    ELSE "ffmpeg"

\* The executable that Command::new(program) starts: a bare name is looked up
\* in the OS search path, a path is taken as it is.
Spawned(program, e) == IF program = "ffmpeg" THEN e.path ELSE program

\* The executables that an export (Command::new(get_ffmpeg_path())) and a
\* capture start or device listing (Command::new("ffmpeg")) start in one
\* environment.
LocateCall(e) ==
    /\ f_name = "none"
    /\ f_name' = "locate"
    /\ f_arg' = <<e>>
    /\ f_ret' = [export |-> Spawned(get_ffmpeg_path(e), e),
                 capture |-> Spawned("ffmpeg", e)]

\* ------------------------------------------------- output files of start
\* Seconds the clock advances in one run.
MaxClock == 1

\* Number of start calls in one run of the start commands with their files.
MaxStarts == 2

NoPath == <<>>

\* recordings_dir.join(format!("<kind>-recording-{}.mp4", timestamp))
OutputFile(k, timestamp) == <<"app_data/recordings", k, "-recording-", timestamp, ".mp4">>

PathInit ==
    /\ now = 0
    /\ s_kind = [c \in Calls |-> "-"]
    /\ output_path = [c \in Calls |-> NoPath]

\* One of the three start commands is invoked.
StartKind(c, k, i) ==
    /\ StartInvoke(c, k, i)
    /\ s_kind' = [s_kind EXCEPT ![c] = k]
    /\ UNCHANGED <<now, output_path>>

\* create_dir_all returned: SystemTime::now().as_secs() is read, the file name
\* is built from it, and the capture process is spawned with -y on that file.
StartFile(c) ==
    /\ StartSpawn(c)
    /\ output_path' = [output_path EXCEPT
                         ![c] = IF os'[c] = "running" THEN OutputFile(s_kind[c], now) ELSE @]
    /\ UNCHANGED <<now, s_kind>>

\* A second passes.
Tick ==
    /\ now < MaxClock
    /\ now' = now + 1
    /\ UNCHANGED <<s_kind, output_path>>

Init == RecInit /\ ConcatIdle /\ PrepareIdle /\ FunIdle /\ PathInit

Next ==
    \/ (\E c \in Calls : Invoke(c)) /\ UNCHANGED <<concatVars, prepVars, funVars, pathVars>>
    \/ (\E c \in Calls : Step(c)) /\ UNCHANGED <<concatVars, prepVars, funVars, pathVars>>
    \/ (\E p \in Calls : ProcExit(p)) /\ UNCHANGED <<concatVars, prepVars, funVars, pathVars>>
    \/ (\E c \in Calls : TimerElapse(c)) /\ UNCHANGED <<concatVars, prepVars, funVars, pathVars>>

Spec == Init /\ [][Next]_vars

\* The scheduler runs every task that can take a step, and time passes; a
\* capture process is under no obligation to exit.
FairSpec ==
    /\ Spec
    /\ \A c \in Calls : WF_vars(Step(c) /\ UNCHANGED <<concatVars, prepVars, funVars, pathVars>>)
    /\ \A c \in Calls : WF_vars(TimerElapse(c) /\ UNCHANGED <<concatVars, prepVars, funVars, pathVars>>)

ConcatNext ==
    \/ /\ c_pc = "idle"
       /\ \E total \in Totals, script \in Scripts : export_concat(total, script)
       /\ UNCHANGED <<recVars, prepVars, funVars, pathVars>>
    \/ ConcatReadLine /\ UNCHANGED <<recVars, prepVars, funVars, pathVars>>
    \/ ConcatReadEof /\ UNCHANGED <<recVars, prepVars, funVars, pathVars>>
    \/ ConcatWait /\ UNCHANGED <<recVars, prepVars, funVars, pathVars>>
    \/ EncWrite /\ UNCHANGED <<recVars, prepVars, funVars, pathVars>>
    \/ (\E st \in {0, 1} : EncExit(st)) /\ UNCHANGED <<recVars, prepVars, funVars, pathVars>>

ConcatSpec == Init /\ [][ConcatNext]_vars

PrepareNext ==
    \/ EarlierExport /\ UNCHANGED <<recVars, concatVars, funVars, otherVars, pathVars>>
    \/ /\ p_pc = "idle"
       /\ \E request \in Requests, checked \in BOOLEAN : export_prepare(request, checked)
       /\ UNCHANGED <<recVars, concatVars, funVars, otherVars, pathVars>>
    \/ PrepareMkdir /\ UNCHANGED <<recVars, concatVars, funVars, otherVars, pathVars>>
    \/ PrepareClip /\ UNCHANGED <<recVars, concatVars, funVars, otherVars, pathVars>>
    \/ (\E st \in {0, 1} : EncoderExit(st)) /\ UNCHANGED <<recVars, concatVars, funVars, otherVars, pathVars>>
    \/ PrepareCollect /\ UNCHANGED <<recVars, concatVars, funVars, otherVars, pathVars>>
    \/ PrepareList /\ UNCHANGED <<recVars, concatVars, funVars, otherVars, pathVars>>
    \/ PrepareWrite /\ UNCHANGED <<recVars, concatVars, funVars, otherVars, pathVars>>

PrepareSpec == Init /\ [][PrepareNext]_vars

\* Two export_prepare calls at the same time (the commands are async: the
\* runtime runs a second invocation while the first is at an await).
SharedScratchNext ==
    \/ /\ p_pc = "idle"
       /\ \E request \in SharedRequests, checked \in BOOLEAN : export_prepare(request, checked)
       /\ UNCHANGED <<recVars, concatVars, funVars, otherVars, pathVars>>
    \/ PrepareMkdir /\ UNCHANGED <<recVars, concatVars, funVars, otherVars, pathVars>>
    \/ PrepareClip /\ UNCHANGED <<recVars, concatVars, funVars, otherVars, pathVars>>
    \/ (\E st \in {0, 1} : EncoderExit(st)) /\ UNCHANGED <<recVars, concatVars, funVars, otherVars, pathVars>>
    \/ PrepareCollect /\ UNCHANGED <<recVars, concatVars, funVars, otherVars, pathVars>>
    \/ PrepareList /\ UNCHANGED <<recVars, concatVars, funVars, otherVars, pathVars>>
    \/ PrepareWrite /\ UNCHANGED <<recVars, concatVars, funVars, otherVars, pathVars>>
    \/ (\E request \in SharedRequests : OtherPrepare(request))
          /\ UNCHANGED <<recVars, concatVars, funVars, pathVars>>
    \/ OtherSegment /\ UNCHANGED <<recVars, concatVars, funVars, pathVars>>
    \/ OtherWrite /\ UNCHANGED <<recVars, concatVars, funVars, pathVars>>

SharedScratchSpec == Init /\ [][SharedScratchNext]_vars

\* The commands of a build for a target other than macOS. stop_screen_recording
\* is the same on every target; its steps after the remove need a handle that
\* the remove found.
OtherPlatformNext ==
    \/ (\E c \in Calls, k \in Kinds, i \in RecordingIds : StartUnsupported(c, k, i))
          /\ UNCHANGED <<concatVars, prepVars, funVars, pathVars>>
    \/ (\E c \in Calls : ListUnsupported(c)) /\ UNCHANGED <<concatVars, prepVars, funVars, pathVars>>
    \/ (\E c \in Calls, i \in RecordingIds : stop_screen_recording(c, i))
          /\ UNCHANGED <<concatVars, prepVars, funVars, pathVars>>
    \/ (\E c \in Calls : StopLock(c)) /\ UNCHANGED <<concatVars, prepVars, funVars, pathVars>>
    \/ (\E c \in Calls : StopRemove(c)) /\ UNCHANGED <<concatVars, prepVars, funVars, pathVars>>

OtherPlatformSpec == Init /\ [][OtherPlatformNext]_vars

FunctionsNext ==
    \/ (f_name = "none" /\ \E text \in DevTexts : list_screen_devices(text))
          /\ UNCHANGED <<recVars, concatVars, prepVars, pathVars>>
    \/ (\E time_str \in ParseTimeSamples : ParseTimeCall(time_str))
          /\ UNCHANGED <<recVars, concatVars, prepVars, pathVars>>
    \/ (\E rate_str \in RateSamples : ParseRateCall(rate_str))
          /\ UNCHANGED <<recVars, concatVars, prepVars, pathVars>>
    \/ (\E d_ms \in ThumbDurations : ThumbnailCall(d_ms))
          /\ UNCHANGED <<recVars, concatVars, prepVars, pathVars>>
    \/ (\E e \in Environments : LocateCall(e))
          /\ UNCHANGED <<recVars, concatVars, prepVars, pathVars>>

FunctionsSpec == Init /\ [][FunctionsNext]_vars

\* The start and stop commands, each stop call being the stop of
\* commands/recording.rs or that of lib.rs.
RevisionsNext ==
    \/ (\E c \in Calls : Invoke(c)) /\ UNCHANGED <<concatVars, prepVars, funVars, pathVars>>
    \/ (\E c \in Calls, i \in RecordingIds : lib_stop_screen_recording(c, i))
          /\ UNCHANGED <<concatVars, prepVars, funVars, pathVars>>
    \/ (\E c \in Calls : Step(c)) /\ UNCHANGED <<concatVars, prepVars, funVars, pathVars>>
    \/ (\E c \in Calls : LibStep(c)) /\ UNCHANGED <<concatVars, prepVars, funVars, pathVars>>
    \/ (\E p \in Calls : ProcExit(p)) /\ UNCHANGED <<concatVars, prepVars, funVars, pathVars>>
    \/ (\E c \in Calls : TimerElapse(c)) /\ UNCHANGED <<concatVars, prepVars, funVars, pathVars>>
    \/ (\E c \in Calls : LibTimerElapse(c)) /\ UNCHANGED <<concatVars, prepVars, funVars, pathVars>>

RevisionsSpec == Init /\ [][RevisionsNext]_vars

\* The start commands with their output files, and the clock.
OutputFileNext ==
    \/ (\E c \in 1..MaxStarts, k \in Kinds, i \in RecordingIds : StartKind(c, k, i))
          /\ UNCHANGED <<concatVars, prepVars, funVars>>
    \/ (\E c \in Calls : StartFile(c)) /\ UNCHANGED <<concatVars, prepVars, funVars>>
    \/ (\E c \in Calls : StartLock(c)) /\ UNCHANGED <<concatVars, prepVars, funVars, pathVars>>
    \/ (\E c \in Calls : StartInsert(c)) /\ UNCHANGED <<concatVars, prepVars, funVars, pathVars>>
    \/ Tick /\ UNCHANGED <<recVars, concatVars, prepVars, funVars>>

OutputFileSpec == Init /\ [][OutputFileNext]_vars

\* ================================================================== claims
StartedOk(p) == IsStart(p) /\ pc[p] = "done" /\ result[p].code = "OK"
Holders(p) == {c \in Calls : IsStop(c) /\ child[c] = p}
Overwriters(p) == {d \in Calls : IsStart(d) /\ replaced[d] = p}
EntriesOf(m, i) == {e \in m : e[1] = i}

\* The step in which call c leaves the critical section of stop.
StopRemoves(c) == IsStop(c) /\ pc[c] = "sp_remove" /\ pc'[c] # "sp_remove"
\* The step in which call c leaves the critical section of start.
StartInserts(c) == IsStart(c) /\ pc[c] = "st_insert" /\ pc'[c] # "st_insert"

\* ---- C1
C1_Once ==
    /\ \A p \in Calls : Cardinality(Holders(p)) <= 1
    /\ \A p \in Calls : StartedOk(p) =>
          Cardinality(Holders(p)) + Cardinality(Overwriters(p))
            + Cardinality({e \in processes : e[2] = p}) = 1
    /\ \A c \in Calls : IsStop(c) /\ pc[c] = "done" =>
          /\ child[c] # None => result[c].code = "OK"
          /\ child[c] = None => result[c].code = "RECORDING_NOT_FOUND"

C1_Remove ==
    \A c \in Calls : StopRemoves(c) =>
        /\ child'[c] = MapGet(processes, recording_id[c])
        /\ EntriesOf(processes', recording_id[c]) = {}

\* C1: every handle a start registered is obtained by at most one stop call;
\* a stop whose remove runs while the id is registered obtains the handle and
\* unregisters the id, so of two concurrent stop(id) calls with no start in
\* between exactly one holds the handle and returns success, the other holds
\* none and fails with RECORDING_NOT_FOUND; a registered handle is in exactly
\* one place (the registry, one stop call, or dropped by an overwriting insert).
C1_StopExactlyOnce == [](C1_Once) /\ [][C1_Remove]_vars

\* Two stop calls for one id have returned, one with success and one with
\* RECORDING_NOT_FOUND, and the id was started exactly once.
C1_Witness ==
    \E c1, c2 \in Calls :
        /\ c1 # c2 /\ IsStop(c1) /\ IsStop(c2)
        /\ recording_id[c1] = recording_id[c2]
        /\ pc[c1] = "done" /\ pc[c2] = "done"
        /\ result[c1].code = "OK" /\ result[c2].code = "RECORDING_NOT_FOUND"
        /\ Cardinality({p \in Calls : StartedOk(p)
                                       /\ recording_id[p] = recording_id[c1]}) = 1

\* ---- C2
\* C2: the registry lock is held only inside the synchronous insert of start
\* and remove of stop: no task that is suspended at an await holds it, so a
\* stop that waits on its process leaves the lock free for every other call.
C2_NoLockAcrossAwait ==
    /\ lock # None => pc[lock] \in CriticalPcs
    /\ \A c \in Calls : pc[c] \in AwaitPcs => lock # c

\* While stop(A) is in its timed wait, a call for another id holds the lock.
C2_Witness ==
    \E c, d \in Calls :
        /\ IsStop(c) /\ pc[c] \in {"sp_wait", "sp_kill", "sp_wait2"}
        /\ lock = d /\ recording_id[d] # recording_id[c]

\* ---- C3
\* C3: every stop call that found a handle eventually returns, whatever the
\* capture process does.
C3_StopReturns ==
    \A c \in Calls : (IsStop(c) /\ child[c] # None) ~> (pc[c] = "done")

\* ---- C4
\* C4: a stop that found a handle returns success on every path (process
\* exited, wait error, timeout and kill, whatever write, kill and second wait
\* return); stop returns an error only when it found no handle.
C4_FoundMeansOk ==
    \A c \in Calls : IsStop(c) /\ pc[c] = "done" =>
        /\ child[c] # None => result[c] = Ok(<<>>)
        /\ result[c].code # "OK" =>
              child[c] = None /\ result[c].code = "RECORDING_NOT_FOUND"

\* A stop has returned success on the wait-error path although its kill failed
\* and the process still runs.
C4_Witness ==
    \E c \in Calls :
        /\ IsStop(c) /\ pc[c] = "done" /\ branch[c] = "wait_error"
        /\ result[c].code = "OK"
        /\ os[child[c]] = "running"

\* ---- C5
C5_NotFound ==
    \A c \in Calls :
        StopRemoves(c) /\ EntriesOf(processes, recording_id[c]) = {} =>
            /\ pc'[c] = "done"
            /\ result'[c].code = "RECORDING_NOT_FOUND"
            /\ child'[c] = None
            /\ processes' = processes
            /\ os' = os /\ quitWrites' = quitWrites /\ killSignals' = killSignals

\* C5: stop for an id that is not in the registry returns RECORDING_NOT_FOUND
\* in the step of its remove, writes quit bytes to no process, kills none, and
\* leaves the registry as it was.
C5_StopUnknownId == [][C5_NotFound]_vars

\* A stop has failed with RECORDING_NOT_FOUND while another recording is
\* registered and running.
C5_Witness ==
    \E c \in Calls :
        /\ IsStop(c) /\ pc[c] = "done" /\ result[c].code = "RECORDING_NOT_FOUND"
        /\ \E e \in processes : os[e[2]] = "running" /\ quitWrites[e[2]] = 0

\* ---- C6
C6_OnePerId == \A i \in RecordingIds : Cardinality(EntriesOf(processes, i)) <= 1

C6_Insert ==
    \A c \in Calls : StartInserts(c) =>
        /\ pc'[c] = "done"
        /\ result'[c].code = "OK"
        /\ EntriesOf(processes', recording_id[c]) = {<<recording_id[c], child[c]>>}

\* C6: the registry holds at most one handle per id; the insert of a start
\* succeeds also when the id is registered, and the id then maps to the newly
\* spawned process only.
C6_InsertOverwrites == [](C6_OnePerId) /\ [][C6_Insert]_vars

\* A start has returned success after its insert replaced a registered handle.
C6_Witness ==
    \E c \in Calls :
        /\ StartedOk(c) /\ replaced[c] # None
        /\ MapGet(processes, recording_id[c]) = child[c]

\* ---- C7
C7_Removal ==
    /\ \A i \in RecordingIds :
          EntriesOf(processes, i) # {} /\ EntriesOf(processes', i) = {} =>
              \E c \in Calls : StopRemoves(c) /\ recording_id[c] = i
    /\ \A e \in processes : e \notin processes' =>
          \E c \in Calls : recording_id[c] = e[1] /\ (StopRemoves(c) \/ StartInserts(c))
    /\ \A e \in processes' : e \notin processes =>
          StartInserts(e[2]) /\ recording_id[e[2]] = e[1]
    /\ os' # os /\ pc' = pc => processes' = processes

\* C7: an id leaves the registry only in the remove of a stop for that id; an
\* entry changes only in a step of a call for its own id and never comes back;
\* the exit of a capture process leaves the registry as it is (the entry stays,
\* stale).
C7_OnlyStopRemoves == [][C7_Removal]_vars

\* The process of a registered id has exited on its own and its entry is still
\* there after a stop for another id has returned.
C7_Witness ==
    \E e \in processes :
        /\ os[e[2]] = "exited" /\ quitWrites[e[2]] = 0
        /\ \E c \in Calls : IsStop(c) /\ pc[c] = "done" /\ recording_id[c] # e[1]

\* ---- C8
C8_Outcome ==
    \A c \in Calls : IsStart(c) /\ pc[c] = "done" =>
        IF result[c].code = "OK"
        THEN result[c] = Ok(OutputPath) /\ child[c] = c /\ os[c] # "none"
        ELSE /\ result[c].code \in {"PATH_ERROR", "DIR_CREATE_ERROR", "FFMPEG_ERROR"}
             /\ child[c] = None /\ os[c] = "none"
             /\ \A e \in processes : e[2] # c

C8_Return ==
    \A c \in Calls : IsStart(c) /\ pc[c] # "done" /\ pc'[c] = "done" =>
        IF result'[c].code = "OK"
        THEN MapGet(processes', recording_id[c]) = child[c]
        ELSE processes' = processes

\* C8: a start that returns an output path has spawned its capture process and
\* the registry maps the id to it when start returns; a start that returns an
\* error (PATH_ERROR, DIR_CREATE_ERROR, FFMPEG_ERROR) has left the registry
\* unchanged and no capture process behind.
C8_StartOutcome == [](C8_Outcome) /\ [][C8_Return]_vars

\* One start has returned an output path and is registered; another has failed
\* at the spawn.
C8_Witness ==
    \E c, d \in Calls :
        /\ StartedOk(c) /\ <<recording_id[c], c>> \in processes
        /\ IsStart(d) /\ pc[d] = "done" /\ result[d].code = "FFMPEG_ERROR"

\* ---- C9
CompleteEvents == {k \in 1..Len(c_events) : c_events[k].stage = "complete"}

\* C9: a concat run that returned success has emitted exactly one "complete"
\* event, with fraction 1.0 and elapsed = total = total_duration_ms, as its last
\* event; a run that has not returned success has emitted none.
C9_CompleteOnSuccess ==
    IF c_pc = "done" /\ c_result.code = "OK"
    THEN /\ CompleteEvents = {Len(c_events)}
         /\ c_events[Len(c_events)] =
               [stage |-> "complete", progress |-> <<1, 1>>,
                current_ms |-> c_total, total_ms |-> c_total]
    ELSE CompleteEvents = {}

\* A run has returned success after two "concat" events and the "complete" one.
C9_Witness ==
    /\ c_pc = "done" /\ c_result.code = "OK"
    /\ Len(c_events) >= 3

\* ---- C10
\* C10: the reading loop ends only at the end of the diagnostic stream, and the
\* driver returns (and emits "complete") only after the stream was read to its
\* end and the wait for the process has returned.
C10_ReturnAfterDrain ==
    /\ c_pc \in {"waiting", "done"} /\ c_reader # "none" => c_reader = "eof"
    /\ c_pc = "done" /\ c_reader # "none" => c_status # "none"
    /\ CompleteEvents # {} => c_reader = "eof" /\ c_status = "ok"

\* ---- C11
ConcatEvents == SelectSeq(c_events, LAMBDA e : e.stage = "concat")
FracLeq(a, b) == a[1] * b[2] <= b[1] * a[2]
FracEq(a, b) == a[1] * b[2] = b[1] * a[2]

\* C11: the fractions of the events emitted in one concat run never decrease
\* from one event to the next, whatever lines the encoder writes.
C11_NonDecreasing ==
    \A k \in 1..(Len(c_events) - 1) :
        FracLeq(c_events[k].progress, c_events[k + 1].progress)

\* ---- C12
\* C12: every emitted event has a fraction between 0 and 1, also for a marker
\* time above total_duration_ms.
C12_FractionInUnit ==
    \A k \in 1..Len(c_events) :
        LET f == c_events[k].progress
        IN  f[2] > 0 /\ 0 <= f[1] /\ f[1] <= f[2]

\* An event was emitted for a marker time above a positive total_duration_ms,
\* with fraction 1.
C12_Witness ==
    \E k \in 1..Len(c_events) :
        /\ c_events[k].stage = "concat"
        /\ c_events[k].total_ms > 0
        /\ c_events[k].current_ms > c_events[k].total_ms
        /\ FracEq(c_events[k].progress, <<1, 1>>)

\* ---- C13
\* A time text of three numeric fields, none negative, and the time it
\* denotes in milliseconds.
WellFormed(t) == Len(t) = 3 /\ \A k \in 1..3 : t[k].num /\ t[k].th >= 0
MarkerMs(t) == t[1].th * 3600 + t[2].th * 60 + t[3].th
\* The step of the reading loop that takes a line out of the stream.
ReadsLine == c_pc = "reading" /\ c_pipe # <<>> /\ c_pipe' = Tail(c_pipe)

C13_Step ==
    LET line == Head(c_pipe) IN
    (ReadsLine /\ line.markers # <<>> /\ WellFormed(line.markers[1]) /\ c_total > 0) =>
        LET T_ms == MarkerMs(line.markers[1]) IN
        /\ Len(c_events') = Len(c_events) + 1
        /\ LET e == c_events'[Len(c_events')] IN
           /\ e.stage = "concat"
           /\ e.current_ms = T_ms
           /\ e.total_ms = c_total
           /\ FracEq(e.progress, IF T_ms >= c_total THEN <<1, 1>> ELSE <<T_ms, c_total>>)

\* C13: reading a line whose first marker is a well-formed time T emits one
\* event with stage "concat", elapsed T in milliseconds, total
\* total_duration_ms and fraction min(1, T / total_duration_ms).
C13_MarkerEvent == [][C13_Step]_vars

\* ---- C14
RECURSIVE CountWellFormed(_)
CountWellFormed(ms) ==
    IF ms = <<>> THEN 0
    ELSE (IF WellFormed(Head(ms)) THEN 1 ELSE 0) + CountWellFormed(Tail(ms))
RECURSIVE MarkersIn(_)
MarkersIn(lines) ==
    IF lines = <<>> THEN 0
    ELSE CountWellFormed(Head(lines).markers) + MarkersIn(Tail(lines))

\* C14: when the stream was read to its end, as many "concat" events were
\* emitted as the stream held well-formed time markers, several on one line
\* included.
C14_EventPerMarker ==
    c_pc = "done" /\ c_reader = "eof" => Len(ConcatEvents) = MarkersIn(c_written)

\* ---- C15
\* A line without marker, or whose marker does not parse.
Skipped(line) == line.markers = <<>> \/ ~WellFormed(line.markers[1])
RECURSIVE Unskipped(_)
Unskipped(lines) ==
    IF lines = <<>> THEN 0
    ELSE (IF Skipped(Head(lines)) THEN 0 ELSE 1) + Unskipped(Tail(lines))

\* C15: a line without marker or with a marker that does not parse changes
\* nothing: the run has emitted one event for each of the other lines the
\* encoder wrote, those after such a line included, and its result is the one
\* the exit status gives.
C15_SkipsSilently ==
    c_pc = "done" /\ c_reader # "none" =>
        /\ Len(ConcatEvents) = Unskipped(c_written)
        /\ c_status = "ok" => c_result = (IF c_exit = 0 THEN Ok(<<>>) ELSE Err("EXPORT_FAILED"))

\* ---- C16
\* C16: a run whose wait gave a non-zero exit status has returned
\* EXPORT_FAILED, whatever events it emitted; a run whose spawn failed has
\* returned FFMPEG_ERROR and emitted no event.
C16_ExitDecides ==
    c_pc = "done" =>
        /\ c_reader = "none" => c_result = Err("FFMPEG_ERROR") /\ c_events = <<>>
        /\ c_status = "ok" /\ c_exit # 0 => c_result = Err("EXPORT_FAILED")

\* A run with a positive total_duration_ms has returned EXPORT_FAILED after
\* its last event had fraction 1.
C16_Witness ==
    /\ c_pc = "done" /\ c_exit # 0 /\ c_total > 0
    /\ c_result = Err("EXPORT_FAILED")
    /\ c_events # <<>>
    /\ c_events[Len(c_events)].stage = "concat"
    /\ FracEq(c_events[Len(c_events)].progress, <<1, 1>>)

\* ---- C17
Clips == p_request.clips
Missing(k) == Clips[k].asset_path \notin ExistingSources
\* The segment file of clip k (counted from 1) holds what the k-th encoder
\* invocation of this call wrote.
Encoded(k) ==
    /\ k <= Len(p_invocations)
    /\ p_disk[segment_path(k - 1)] = File("segment", <<p_invocations[k]>>)
\* No segment file was touched by this call.
NoSegmentWritten == \A f \in SegmentFiles : p_disk[f].kind \in {"none", "old"}

\* The claim as it stands: a request with a missing source, once the scratch
\* directory is there, ends in FILE_NOT_FOUND with no encoder invocation and
\* no segment file, wherever the missing clip is.
C17_ZeroSegments ==
    (/\ p_pc = "done"
     /\ p_result.code \notin {"PATH_ERROR", "DIR_CREATE_ERROR"}
     /\ \E k \in 1..Len(Clips) : Missing(k))
    => /\ p_result.code = "FILE_NOT_FOUND"
       /\ p_invocations = <<>>
       /\ NoSegmentWritten

C17_AtMissingClip ==
    p_pc = "done" /\ p_result.code = "FILE_NOT_FOUND" =>
        /\ p_i < Len(Clips) /\ Missing(p_i + 1)
        /\ Len(p_invocations) = p_i
        /\ \A k \in 1..p_i : ~Missing(k) /\ Encoded(k)
        /\ p_i = 0 => NoSegmentWritten

C17_Step ==
    (p_pc = "loop" /\ p_i < Len(Clips) /\ Missing(p_i + 1)) =>
        /\ p_pc' = "done"
        /\ p_result'.code = "FILE_NOT_FOUND"
        /\ UNCHANGED <<p_invocations, p_disk, p_manifest>>

\* C17: when the loop comes to a clip whose source does not exist, prepare
\* returns FILE_NOT_FOUND without invoking the encoder for it; the encoder was
\* invoked once for each earlier clip and their segment files are there: no
\* segment was produced only when the missing clip is the first one.
C17_MissingSource == [](C17_AtMissingClip) /\ [][C17_Step]_vars

\* prepare has returned FILE_NOT_FOUND for its second clip, after the segment
\* of the first one was written.
C17_Witness ==
    /\ p_pc = "done" /\ p_result.code = "FILE_NOT_FOUND"
    /\ p_i = 1 /\ Encoded(1)

\* ---- C18
\* C18: when prepare has failed on clip i (FILE_NOT_FOUND, FFMPEG_ERROR, or
\* SEGMENT_FAILED naming i), the encoder was invoked for clips up to i only,
\* once each and in order, the segments of clips 0..i-1 are in place, the files
\* of later clips are untouched, and the manifest is the one that was there
\* before the call.
C18_FailureAborts ==
    p_pc = "done" /\ p_result.code \in {"FILE_NOT_FOUND", "FFMPEG_ERROR", "SEGMENT_FAILED"} =>
        /\ p_i < Len(Clips)
        /\ Len(p_invocations) = (IF p_result.code = "SEGMENT_FAILED" THEN p_i + 1 ELSE p_i)
        /\ \A k \in 1..Len(p_invocations) :
              /\ p_invocations[k].output = segment_path(k - 1)
              /\ p_invocations[k].input = Clips[k].asset_path
        /\ \A k \in 1..p_i : Encoded(k)
        /\ \A j \in (p_i + 1)..(MaxClips - 1) : p_disk[segment_path(j)].kind \in {"none", "old"}
        /\ p_manifest.kind \in {"none", "old"}
        /\ p_result.code = "SEGMENT_FAILED" => p_result.value = p_i /\ p_enc = NoEncoder

\* prepare has returned SEGMENT_FAILED for its second clip: the segment of the
\* first one is in place and the manifest of an earlier export is still there.
C18_Witness ==
    /\ p_pc = "done" /\ p_result.code = "SEGMENT_FAILED"
    /\ p_i = 1 /\ Encoded(1)
    /\ p_manifest = OldFile

\* ---- C19
RECURSIVE DecValue(_)
DecValue(ds) == IF ds = <<>> THEN 0 ELSE 10 * DecValue(SubSeq(ds, 1, Len(ds) - 1)) + ds[Len(ds)]
RECURSIVE SumOfDurations(_)
SumOfDurations(cs) ==
    IF cs = <<>> THEN 0 ELSE (Head(cs).out_ms - Head(cs).in_ms) + SumOfDurations(Tail(cs))

C20_Manifest ==
    p_pc = "done" /\ p_result.code = "OK" =>
        LET paths == p_result.value.segment_paths IN
        /\ p_manifest.kind = "list"
        /\ Len(p_manifest.content) = Len(paths)
        /\ \A k \in 1..Len(paths) : p_manifest.content[k] = <<"file '", paths[k], "'\n">>

C20_Write ==
    p_manifest' # p_manifest /\ p_pc # "idle" =>
        /\ p_pc = "write"
        /\ Len(p_segment_paths) = Len(Clips)
        /\ Len(p_invocations) = Len(Clips)
        /\ \A k \in 1..Len(Clips) : Encoded(k)
        /\ p_enc = NoEncoder

\* C20: when prepare has succeeded, the manifest is the line file '<path>'
\* and a newline for each returned segment, in the order of the returned list,
\* and nothing else; the call writes the manifest only after every clip was
\* encoded successfully.
C20_ManifestAfterAll == [](C20_Manifest) /\ [][C20_Write]_vars

\* prepare has succeeded with two segments and the manifest holds two lines.
C20_Witness ==
    /\ p_pc = "done" /\ p_result.code = "OK"
    /\ Len(p_result.value.segment_paths) = 2
    /\ p_manifest.kind = "list" /\ Len(p_manifest.content) = 2

\* ---- C21
C21_OneAlive ==
    /\ p_enc = Running => p_pc = "encode" /\ Len(p_invocations) = p_i + 1
    /\ Len(p_invocations) <= Len(Clips)
    /\ \A k \in 1..Len(p_invocations) :
          /\ p_invocations[k].output = segment_path(k - 1)
          /\ p_invocations[k].input = Clips[k].asset_path

C21_Start ==
    p_invocations' # p_invocations =>
        /\ Len(p_invocations') = Len(p_invocations) + 1
        /\ SubSeq(p_invocations', 1, Len(p_invocations)) = p_invocations
        /\ p_enc = NoEncoder /\ p_enc' = Running
        /\ \A k \in 1..Len(p_invocations) : Encoded(k)

\* C21: the encoder of a prepare call runs only while the call waits for it;
\* an encoder is started only when none is running and every encoder started
\* before has exited with success (its segment is written); the k-th
\* invocation is for the k-th clip, so no clip is encoded twice.
C21_OneEncoder == [](C21_OneAlive) /\ [][C21_Start]_vars

\* The encoder of the second clip is running; the one of the first clip has
\* exited with success.
C21_Witness ==
    /\ p_enc = Running
    /\ Len(p_invocations) = 2 /\ Encoded(1)

\* ---- C22
\* C22: a prepare call never aborts: at every moment it is still running or
\* has returned success or an error envelope, whatever the clips of the
\* request are (out_ms < in_ms, a sum of durations beyond the u64 range).
C22_NoAbort ==
    /\ p_pc # "panicked"
    /\ p_pc = "done" =>
          p_result.code \in {"OK", "PATH_ERROR", "DIR_CREATE_ERROR", "FILE_NOT_FOUND",
                             "FFMPEG_ERROR", "SEGMENT_FAILED", "FILE_WRITE_ERROR"}

\* ---- C23
\* C23: in a build for a platform other than macOS every start and every
\* device-list call has failed with PLATFORM_NOT_SUPPORTED, no capture process
\* was spawned, the registry is empty, and every stop that has returned has
\* failed with RECORDING_NOT_FOUND without holding a handle.
C23_Unsupported ==
    /\ processes = {}
    /\ \A c \in Calls :
          /\ os[c] = "none" /\ child[c] = None
          /\ pc[c] \in {"idle", "sp_lock", "sp_remove", "done"}
          /\ pc[c] = "done" =>
                result[c].code = (IF IsStop(c) THEN "RECORDING_NOT_FOUND"
                                  ELSE "PLATFORM_NOT_SUPPORTED")

\* A start, a stop for the id of that start, and a device-list call have all
\* returned.
C23_Witness ==
    \E c, d, e \in Calls :
        /\ IsStart(c) /\ pc[c] = "done"
        /\ IsStop(d) /\ pc[d] = "done" /\ recording_id[d] = recording_id[c] /\ c < d
        /\ op[e] = "list" /\ pc[e] = "done"

\* ---- C24
DefaultScreen == ScreenDevice("0", "Capture screen 0", "screen")
DefaultAudio == ScreenDevice("0", "Default microphone", "audio")

\* C24: a device listing that has succeeded returns at least one "screen" and
\* at least one "audio" device, whatever the text was; the list is the parsed
\* entries followed by a default screen exactly when no screen was parsed and
\* by a default microphone exactly when no audio device was parsed.
C24_NeverEmpty ==
    f_name = "list" /\ f_ret.code = "OK" =>
        LET parsed == ParseDevices(f_arg).devices
            ret == f_ret.value
        IN  /\ HasType(ret, "screen") /\ HasType(ret, "audio")
            /\ ret = parsed
                     \o (IF HasType(parsed, "screen") THEN <<>> ELSE <<DefaultScreen>>)
                     \o (IF HasType(parsed, "audio") THEN <<>> ELSE <<DefaultAudio>>)

\* A listing has succeeded for a text with a video section that lists a
\* screen and no audio section: the screen is the parsed one and only the
\* microphone is a default.
C24_Witness ==
    /\ f_name = "list" /\ f_ret.code = "OK"
    /\ HasType(ParseDevices(f_arg).devices, "screen")
    /\ ~HasType(ParseDevices(f_arg).devices, "audio")
    /\ Len(f_ret.value) = 2
    /\ f_ret.value[2] = DefaultAudio

\* ---- C25
BothDimensions == p_request.width # None /\ p_request.height # None

\* C25: an encoder invocation carries the scale filter, with the requested
\* width and height, exactly when the request gives both; the decision is the
\* same for every clip of the request, and with one dimension alone the clips
\* are encoded without a scale filter.
C25_ScaleIffBoth ==
    \A k \in 1..Len(p_invocations) :
        p_invocations[k].vf = IF BothDimensions
                              THEN <<"scale", p_request.width, p_request.height>>
                              ELSE <<>>

\* A request with a width and no height has been carried out to the manifest:
\* both clips were encoded, neither with a scale filter.
C25_Witness ==
    /\ p_pc = "done" /\ p_result.code = "OK"
    /\ p_request.width # None /\ p_request.height = None
    /\ Len(p_invocations) = 2
    /\ \A k \in 1..2 : p_invocations[k].vf = <<>>

\* ---- C30
\* C30: every clip the encoder has been invoked for has out_ms > in_ms and a
\* length of out_ms - in_ms, and the total that prepare returns is the sum of
\* the lengths as integers: no subtraction went below zero and no addition
\* went beyond u64.
C30_NoWrap ==
    /\ \A k \in 1..Len(p_invocations) :
          /\ Clips[k].out_ms > Clips[k].in_ms
          /\ p_invocations[k].t = Clips[k].out_ms - Clips[k].in_ms
    /\ (p_pc = "done" /\ p_result.code = "OK" =>
           p_result.value.total_duration_ms = SumOfDurations(Clips))

\* ---- C26
\* C26: parse_ffmpeg_time returns none exactly when the text has not three
\* ':'-separated fields or one of them is not a number, and otherwise the
\* whole milliseconds of (H * 3600 + M * 60 + S) * 1000.
C26_ParseTime ==
    f_name = "parse_ffmpeg_time" =>
        f_ret = IF Len(f_arg) # 3 \/ \E k \in 1..Len(f_arg) : ~f_arg[k].num
                THEN NoTime
                ELSE f_arg[1].th * 3600 + f_arg[2].th * 60 + f_arg[3].th

\* ---- C27
RateRejected(rate_str) ==
    \/ Len(rate_str) # 2
    \/ \E k \in 1..Len(rate_str) : ~rate_str[k].num
    \/ rate_str[2].th = 0

\* C27: parse_frame_rate returns none when the text has not exactly two
\* '/'-separated parts, when a part is not a number or when the denominator is
\* zero, and otherwise a rate r with r * denominator = numerator.
C27_ParseRate ==
    f_name = "parse_frame_rate" =>
        IF RateRejected(f_arg)
        THEN f_ret = NoRate
        ELSE /\ f_ret # NoRate
             /\ f_ret[2] # 0
             /\ f_ret[1] * f_arg[2].th = f_arg[1].th * f_ret[2]

\* parse_frame_rate has been called on 30/0 and has returned none.
C27_Witness ==
    /\ f_name = "parse_frame_rate"
    /\ Len(f_arg) = 2 /\ f_arg[1].num /\ f_arg[2].num /\ f_arg[2].th = 0
    /\ f_ret = NoRate

\* ---- C28
\* C28: for every duration calculate_thumbnail_time returns a tenth of it
\* (rounded down) clamped to 500..5000: 500 below 5000 ms, 5000 from 50000 ms
\* on; the value is never below that of a shorter duration, 0 gives 500,
\* 20000 gives 2000, 100000 gives 5000, and the revision of lib.rs returns the
\* same value as that of parsers.rs.
C28_Thumbnail ==
    f_name = "calculate_thumbnail_time" =>
        LET d == f_arg[1]
            t == f_ret[1]
        IN  /\ t = IF d < 5000 THEN 500 ELSE IF d >= 50000 THEN 5000 ELSE d \div 10
            /\ 500 <= t /\ t <= 5000
            /\ \A e \in ThumbDurations : e <= d => calculate_thumbnail_time(e) <= t
            /\ (d = 0 => t = 500)
            /\ (d = 20000 => t = 2000)
            /\ (d = 100000 => t = 5000)
            /\ f_ret[2] = t

\* Both revisions have been called on 20000 ms and have returned 2000.
C28_Witness ==
    /\ f_name = "calculate_thumbnail_time"
    /\ f_arg = <<20000>>
    /\ f_ret = <<2000, 2000>>

\* ---- C29
\* C29: in every environment where an export locates the encoder, a capture
\* start (or a device listing) locates the same executable.
C29_SameLocator ==
    f_name = "locate" /\ f_ret.export # NotFound => f_ret.capture = f_ret.export

\* ---- C31
\* The handle found by stop call c (None when it found none, or has not yet
\* run its remove).
Found(c) == IF IsStop(c) THEN child[c] ELSE None

C31_Order ==
    /\ \A c \in Calls : Found(c) # None =>
          /\ \A e \in processes : e[2] # Found(c)
          /\ pc[c] \in {"sp_wait", "sp_kill", "sp_wait2", "done"}
          /\ pc[c] \in {"sp_kill", "sp_wait2"} => branch[c] \in {"timeout", "wait_error"}
          /\ killSignals[Found(c)] > 0 => branch[c] \in {"timeout", "wait_error"}
          /\ branch[c] = "exited" =>
                pc[c] = "done" /\ killSignals[Found(c)] = 0 /\ os[Found(c)] = "exited"
    /\ \A p \in Calls :
          /\ quitWrites[p] <= 1
          /\ quitWrites[p] > 0 \/ killSignals[p] > 0 => \E c \in Calls : Found(c) = p

C31_Step ==
    /\ \A p \in Calls : quitWrites'[p] # quitWrites[p] =>
          \E c \in Calls :
              /\ StopRemoves(c) /\ child'[c] = p
              /\ MapGet(processes, recording_id[c]) = p
              /\ \A e \in processes' : e[2] # p
              /\ pc'[c] = "sp_wait" /\ timer'[c] = "running"
    /\ \A c \in Calls : pc[c] # "sp_wait" /\ pc'[c] = "sp_wait" =>
          StopRemoves(c) /\ quitWrites'[child'[c]] <= 1
    /\ \A p \in Calls : killSignals'[p] # killSignals[p] =>
          \E c \in Calls :
              /\ pc[c] = "sp_kill" /\ Found(c) = p
              /\ branch[c] \in {"timeout", "wait_error"}
              /\ timer[c] = "off"
    /\ \A c \in Calls : branch'[c] = "timeout" /\ branch[c] # "timeout" =>
          /\ pc[c] = "sp_wait" /\ timer[c] = "elapsed"
          /\ os[child[c]] = "running"

\* C31: for a handle that stop found, the entry is removed from the registry
\* in the step that writes the quit bytes and closes the pipe, the timed wait
\* follows, and the kill is reached only from the timeout arm (timer elapsed,
\* process still running) or the wait-error arm, never after the wait gave the
\* exit status; the quit bytes reach a process at most once.
C31_StopOrder == [](C31_Order) /\ [][C31_Step]_vars

\* A stop has returned after its timed wait timed out: its process got the
\* quit bytes once and then one kill.
C31_Witness ==
    \E c \in Calls :
        /\ IsStop(c) /\ pc[c] = "done" /\ branch[c] = "timeout"
        /\ quitWrites[child[c]] = 1 /\ killSignals[child[c]] = 1

\* ---- C32
\* The processes whose registry entry an insert of a later start replaced.
Orphans == {p \in Calls : Overwriters(p) # {}}
FoundBy(i) == {c \in Calls : IsStop(c) /\ recording_id[c] = i /\ child[c] # None}
InsertedFor(i) == {p \in Calls : StartedOk(p) /\ recording_id[p] = i}

C33_NoLeak ==
    Orphans = {} =>
        /\ \A p \in Calls : StartedOk(p) /\ os[p] = "running" =>
              \/ \E e \in processes : e[2] = p
              \/ \E c \in Holders(p) : pc[c] # "done"
        /\ \A c \in Calls : IsStop(c) /\ pc[c] = "done" /\ result[c].code = "OK" =>
              os[child[c]] = "exited" \/ killSignals[child[c]] > 0

\* ---- C34
\* Stop call c is past its remove, with a handle, and has not returned.
Stopping(c) == IsStop(c) /\ pc[c] \in {"sp_wait", "sp_kill", "sp_wait2"}

C34_Untouched ==
    /\ \A e \in processes : quitWrites[e[2]] = 0 /\ killSignals[e[2]] = 0
    /\ \A c \in Calls : Stopping(c) => \A e \in processes : e[2] # child[c]

C34_Step ==
    /\ \A d \in Calls :
          StartInserts(d) /\ (\E c \in Calls : Stopping(c) /\ recording_id[c] = recording_id[d]) =>
              /\ result'[d] = Ok(OutputPath)
              /\ <<recording_id[d], d>> \in processes'
    /\ \A c \in Calls : Stopping(c) /\ pc'[c] # pc[c] =>
          /\ processes' = processes
          /\ \A p \in Calls : p # child[c] =>
                /\ os'[p] = os[p]
                /\ quitWrites'[p] = quitWrites[p]
                /\ killSignals'[p] = killSignals[p]

\* C34: a start for an id whose stop is still waiting on the removed process
\* succeeds and registers its own process under the id; a registered process
\* has got no quit bytes and no kill; the steps of the stop after its remove
\* act on the handle it removed only and leave the registry as it is, so the
\* new entry is there when the stop returns.
C34_RestartDuringStop == [](C34_Untouched) /\ [][C34_Step]_vars

\* stop(id) has killed the process it removed and is in its last wait, while
\* the process of a later start(id) is registered under the id and runs.
C34_Witness ==
    \E c, d \in Calls :
        /\ IsStop(c) /\ pc[c] = "sp_wait2" /\ killSignals[child[c]] = 1
        /\ StartedOk(d) /\ d # child[c]
        /\ <<recording_id[c], d>> \in processes
        /\ os[d] = "running" /\ quitWrites[d] = 0 /\ killSignals[d] = 0

\* ---- C35
\* The capture processes spawned by the start calls for id i.
ProcessesOf(i) == {p \in Calls : IsStart(p) /\ recording_id[p] = i}

C35_Frame ==
    /\ \A c \in Calls : pc'[c] # pc[c] =>
          \A i \in RecordingIds \ {recording_id'[c]} :
              /\ EntriesOf(processes', i) = EntriesOf(processes, i)
              /\ \A p \in ProcessesOf(i) :
                    /\ os'[p] = os[p]
                    /\ quitWrites'[p] = quitWrites[p]
                    /\ killSignals'[p] = killSignals[p]
    /\ concatVars' # concatVars \/ prepVars' # prepVars \/ funVars' # funVars =>
          recVars' = recVars

\* C35: a step of a start or stop call for id A leaves the registry entry of
\* every other id B and the processes started for B as they are, whatever
\* the other calls are doing; a step of export_prepare, export_concat or of
\* the codec functions leaves the registry and the capture processes as they
\* are.
C35_OtherIdsUntouched == [][C35_Frame]_vars

\* stop(A) has timed out, killed its process and returned while the process of
\* another id is registered and runs, without quit bytes or kill.
C35_Witness ==
    \E c \in Calls :
        /\ IsStop(c) /\ pc[c] = "done" /\ branch[c] = "timeout"
        /\ killSignals[child[c]] = 1
        /\ \E e \in processes :
              /\ e[1] # recording_id[c]
              /\ os[e[2]] = "running" /\ quitWrites[e[2]] = 0 /\ killSignals[e[2]] = 0

\* ---- C36
\* C36: when prepare has returned success, every segment file of its result
\* holds the encoding of the clip of that index of its own request, and the
\* manifest lists the segments of its result, whatever another prepare call
\* does at the same time or later.
C36_OwnSegments ==
    p_pc = "done" /\ p_result.code = "OK" =>
        /\ \A k \in 1..Len(Clips) :
              p_disk[p_result.value.segment_paths[k]] =
                  File("segment", <<EncoderArgs(p_request, Clips[k], k - 1)>>)
        /\ p_manifest = File("list", ListContent(p_result.value.segment_paths))

\* ---- C37
\* C37: two capture processes that run at the same time write to different
\* files: two start calls with different ids that have returned success have
\* different output paths.
C37_DistinctFiles ==
    \A c, d \in Calls :
        /\ c # d /\ StartedOk(c) /\ StartedOk(d)
        /\ recording_id[c] # recording_id[d]
        /\ os[c] = "running" /\ os[d] = "running"
        => output_path[c] # output_path[d]

\* ---- C38
\* C38: prepare on a request without clips never invokes the encoder and
\* touches no segment file; unless the data directory, the scratch directory
\* or the manifest cannot be had (PATH_ERROR, DIR_CREATE_ERROR,
\* FILE_WRITE_ERROR) it returns success with an empty segment list and
\* total_duration_ms = 0, and the manifest is then the empty file, also when an
\* earlier export had left one.
C38_EmptyRequest ==
    p_pc # "idle" /\ Clips = <<>> =>
        /\ p_invocations = <<>> /\ p_enc = NoEncoder
        /\ p_pc # "panicked"
        /\ \A f \in SegmentFiles : p_disk[f] \in {NoFile, OldFile}
        /\ p_pc = "done" =>
              \/ /\ p_result = Ok(ExportPrepareResult(<<>>, 0))
                 /\ p_manifest = File("list", <<>>)
              \/ p_result.code \in {"PATH_ERROR", "DIR_CREATE_ERROR", "FILE_WRITE_ERROR"}

\* prepare without clips has returned success after an earlier export: the old
\* segment files are still there and the manifest is empty.
C38_Witness ==
    /\ p_pc = "done" /\ Clips = <<>> /\ p_result.code = "OK"
    /\ p_result.value.segment_paths = <<>> /\ p_result.value.total_duration_ms = 0
    /\ \A f \in SegmentFiles : p_disk[f] = OldFile
    /\ p_manifest = File("list", <<>>)

\* ---- C39
\* C39: a stop call of either revision that has returned has returned Ok(())
\* when its remove found a handle and RECORDING_NOT_FOUND when it found none,
\* has left no entry for the handle in the registry, and the process of the
\* handle runs no more.
C39_SameObservations ==
    \A c \in Calls : IsStop(c) /\ pc[c] = "done" =>
        IF child[c] = None
        THEN result[c].code = "RECORDING_NOT_FOUND"
        ELSE /\ result[c] = Ok(<<>>)
             /\ \A e \in processes : e[2] # child[c]
             /\ os[child[c]] # "running"

====
